---- MODULE Spec2Model ----
(***************************************************************************)
(* Portal Gambit backend: the friend-request / friendship state machine of *)
(* services/friend_service.py over the document-store adapter of           *)
(* services/base_service.py, and the HTTP handlers of                      *)
(* routes/friend_routes.py that front it.                                  *)
(*                                                                         *)
(* Every awaited store operation is one step.  A store operation may fail  *)
(* (the client raises); the adapter turns the failure into None / False    *)
(* where it has a try/except and lets it propagate where it has none.      *)
(* A failed write is not applied.                                          *)
(*                                                                         *)
(* The session-token codec of utils/jwt_utils.py and the authentication    *)
(* path of an HTTP request (middleware/auth_middleware.py, then the        *)
(* get_current_user dependency of utils/dependencies.py) form a second     *)
(* component with a clock; it has its own specification.                   *)
(*                                                                         *)
(* Profiles and game history (services/profile_service.py,                 *)
(* services/history_service.py) and the cached aggregates of               *)
(* services/analytics_service.py are further components, each with its     *)
(* own specification; the analytics one shares the clock.                  *)
(* The game listing of get_user_games and archive_game handlers that       *)
(* interleave have specifications of their own (SpecGames, SpecArchive).   *)
(***************************************************************************)
EXTENDS Integers, FiniteSets, Sequences, TLC

\* ------------------------------------------------------------- bounds
\* Request documents that can ever be created in one run.
MaxRequests == 2
\* Handler invocations that can be in flight at once.
MaxCalls == 2

\* User ids are free-form strings (TokenData.uid, FriendRequestCreate.receiver_id,
\* the friend_id path parameter).
Users == {"a", "b", "a_a"}
\* The accounts of one run: any of these sets when calls run one at a time,
\* the first when handlers interleave.
RacingUsers == {"a", "b"}
UserSets == {RacingUsers, {"a", "a_a"}}
RequestIds == 1..MaxRequests
Slots == 1..MaxCalls

\* Clock ticks in one second.
TicksPerSecond == 2
\* Ticks the clock makes one by one, before and after a jump of an hour.
MaxTicks == 5
\* Jumps of an hour the clock makes.
MaxHours == 1
\* Session tokens created in one run.
MaxTokens == 1
\* Profile / history handler invocations that can be in flight at once.
MaxTasks == 2
\* Games a profile can have on its counters before archiving stops.
MaxGamesPlayed == 1
\* Analytics handler invocations of one run.
MaxJobs == 3
\* Games a friendship can have on its counter before interactions stop.
MaxInteractions == 1
\* The largest limit a game listing is asked with.
MaxLimit == 3

VARIABLES
    friend_requests,  \* collection 'friend_requests': request id -> document
    friend_status,    \* collection 'friend_status': status key -> document
    calls,            \* the handler invocations in flight, by slot
    serial,           \* TRUE: a call starts only when no other call is in flight
    users             \* the user ids that take part in the run

VARIABLES
    now,              \* the wall clock, in ticks of 1/TicksPerSecond second
    issued,           \* the session tokens created so far: token, time, TTL asked
    req               \* the HTTP request on its way through the middleware

VARIABLES
    user_profiles,    \* collection 'user_profiles': uid -> document
    game_history,     \* collection 'game_history': game id -> document
    tasks             \* the profile / history handler invocations in flight

VARIABLES
    analytics,        \* collection 'analytics': analytics id -> document
    analytics_cache,  \* collection 'analytics_cache': cache key -> document
    job,              \* the analytics handler invocation in flight
    served            \* how many analytics invocations were answered

friend_vars == <<friend_requests, friend_status, calls, serial, users>>
auth_vars == <<issued, req>>
history_vars == <<user_profiles, game_history, tasks>>
analytics_vars == <<analytics, analytics_cache, job, served>>
vars == <<friend_vars, now, auth_vars, history_vars, analytics_vars>>

\* What a step of the friend component leaves alone, and so on.
outside_friends == <<now, auth_vars, history_vars, analytics_vars>>
outside_auth == <<friend_vars, history_vars, analytics_vars>>
outside_history == <<friend_vars, now, auth_vars, analytics_vars>>
outside_analytics == <<friend_vars, auth_vars, history_vars>>

\* ------------------------------------------------------------- idle components
\* No token in the Authorization header / no request in flight.
NoToken == [format |-> "", key |-> "", uid |-> "", exp |-> 0]
NoAuthorization == [scheme |-> "", credentials |-> NoToken]
NoRequest ==
    [stage |-> "idle", path |-> "", method |-> "",
     authorization |-> NoAuthorization,
     status |-> 0, www_authenticate |-> FALSE, handler |-> FALSE]

AuthStart == now = 0 /\ issued = {} /\ req = NoRequest

HistoryStart == user_profiles = <<>> /\ game_history = <<>> /\ tasks = <<>>

\* No analytics call in flight.
NoStats == <<>>

NoJob ==
    [op |-> "idle", pc |-> "idle", key |-> "", date |-> 0,
     analytics_id |-> "", result |-> "none", stats |-> NoStats, http |-> 0]

AnalyticsStart ==
    analytics = <<>> /\ analytics_cache = <<>> /\ job = NoJob /\ served = 0

FriendsStart ==
    /\ friend_requests = <<>>
    /\ friend_status = <<>>
    /\ calls = <<>>
    /\ users = {}

\* ------------------------------------------------------------- documents
PENDING == "pending"
ACCEPTED == "accepted"
REJECTED == "rejected"

\* f"{user_id}_{friend_id}"
StatusKey(user_id, friend_id) == user_id \o "_" \o friend_id

\* A faulty constructor: sender and receiver change places in the stored request.
SwappedFriendRequest(request_id, sender_id, receiver_id) ==
    [request_id |-> request_id, sender_id |-> receiver_id,
     receiver_id |-> sender_id, status |-> "pending"]

\* FriendRequest(request_id=..., sender_id=..., receiver_id=...): status defaults
\* to PENDING.
NewFriendRequest(request_id, sender_id, receiver_id) ==
    [request_id |-> request_id, sender_id |-> sender_id,
     receiver_id |-> receiver_id, status |-> PENDING]

\* last_game: Optional[str] = None
NoLastGame == ""

\* FriendStatus(user_id=..., friend_id=...) built at time t: became_friends and
\* last_interaction default to the clock, games_played to 0.
NewFriendStatus(user_id, friend_id, t) ==
    [user_id |-> user_id, friend_id |-> friend_id, became_friends |-> t,
     games_played |-> 0, last_game |-> NoLastGame, last_interaction |-> t]

NoFriendStatus == NewFriendStatus("", "", 0)

\* A faulty write: nothing is stored.
DropDoc(coll, doc_id, data) == coll

\* doc_ref.set(data): create or overwrite.
SetDoc(coll, doc_id, data) == (doc_id :> data) @@ coll

\* transaction.delete(ref): deleting an absent document is not an error.
DeleteDoc(coll, doc_id) == [k \in DOMAIN coll \ {doc_id} |-> coll[k]]

\* ------------------------------------------------------------- queries
\* query1 of send_friend_request: pending requests sender -> receiver.
ExistingSentDocs(sender_id, receiver_id) ==
    {r \in DOMAIN friend_requests :
        /\ friend_requests[r].sender_id = sender_id
        /\ friend_requests[r].receiver_id = receiver_id
        /\ friend_requests[r].status = PENDING}

\* A faulty query2: the reverse direction is not looked at.
NoReceivedDocs(sender_id, receiver_id) == {}

\* query2 of send_friend_request: pending requests receiver -> sender.
ExistingReceivedDocs(sender_id, receiver_id) ==
    {r \in DOMAIN friend_requests :
        /\ friend_requests[r].sender_id = receiver_id
        /\ friend_requests[r].receiver_id = sender_id
        /\ friend_requests[r].status = PENDING}

\* get_pending_requests(user_id)
GetPendingRequests(user_id) ==
    {friend_requests[r] : r \in
        {x \in DOMAIN friend_requests :
            /\ friend_requests[x].receiver_id = user_id
            /\ friend_requests[x].status = PENDING}}

\* get_friends(user_id)
GetFriends(user_id) ==
    {friend_status[k] : k \in
        {x \in DOMAIN friend_status : friend_status[x].user_id = user_id}}

\* ------------------------------------------------------------- calls
Idle ==
    [op |-> "idle", pc |-> "idle", route |-> FALSE, caller |-> "",
     sender_id |-> "", receiver_id |-> "", request_id |-> 0, accept |-> FALSE,
     existing_sent |-> FALSE, set1_success |-> FALSE,
     friend_status1 |-> NoFriendStatus, friend_status2 |-> NoFriendStatus,
     game_id |-> NoLastGame, last_interaction |-> 0,
     result |-> "none", http |-> 0,
     invoked |-> FALSE]

\* Slots carry no identity in the program: a new call takes the lowest idle one.
CanStart(c) ==
    /\ calls[c].op = "idle"
    /\ \A d \in Slots : d < c => calls[d].op # "idle"
    /\ serial => \A d \in Slots : calls[d].op = "idle"

InFlight(op) == {c \in Slots : calls[c].op = op /\ calls[c].pc # "done"}

TypeOK ==
    /\ DOMAIN friend_requests \subseteq RequestIds
    /\ DOMAIN calls = Slots
    /\ serial \in BOOLEAN
    /\ users \subseteq Users

Init ==
    /\ friend_requests = <<>>
    /\ friend_status = <<>>
    /\ calls = [c \in Slots |-> Idle]
    /\ serial = FALSE
    /\ users = RacingUsers
    /\ AuthStart /\ HistoryStart /\ AnalyticsStart

InitSerial ==
    /\ friend_requests = <<>>
    /\ friend_status = <<>>
    /\ calls = [c \in Slots |-> Idle]
    /\ serial = TRUE
    /\ users \in UserSets
    /\ AuthStart /\ HistoryStart /\ AnalyticsStart

\* ------------------------------------------------------------- HTTP mapping
\* What the route handler answers for the service's outcome.
HttpStatus(op, result) ==
    CASE result = "true" -> 200
      [] result = "raise" -> 500
      [] op = "send" -> 409
      [] OTHER -> 400

\* The call in slot c ends with the service outcome `result`.
Finish(c, result) ==
    [calls[c] EXCEPT !.pc = "done", !.result = result,
                     !.http = IF calls[c].route
                              THEN HttpStatus(calls[c].op, result) ELSE 0]

\* The route handler of slot c raises HTTPException(status_code) itself.
Reject(c, status_code) ==
    [calls[c] EXCEPT !.pc = "done", !.http = status_code]

\* ------------------------------------------------------------- send_friend_request
\* A faulty self check: the request to oneself is let through.
NeverSelfRequest(sender_id, receiver_id) == FALSE

\* if sender_id == receiver_id
IsSelfRequest(sender_id, receiver_id) == sender_id = receiver_id

\* existing_friendship: the document at f"{sender_id}_{receiver_id}"
ExistingFriendship(sender_id, receiver_id) ==
    StatusKey(sender_id, receiver_id) \in DOMAIN friend_status

\* A faulty id generator: every request gets the same id.
ReusedRequestId == CHOOSE r \in RequestIds : \A x \in RequestIds : r <= x

\* uuid.uuid4(): an id no stored request has.
FreshRequestId ==
    CHOOSE r \in RequestIds \ DOMAIN friend_requests :
        \A x \in RequestIds \ DOMAIN friend_requests : r <= x

\* POST /friends/requests by sender_id: the handler calls
\* send_friend_request, which first refuses a request to oneself.
SendFriendRequest(c, sender_id, receiver_id) ==
    /\ CanStart(c)
    /\ Cardinality(DOMAIN friend_requests) + Cardinality(InFlight("send")) < MaxRequests
    /\ LET started == [Idle EXCEPT !.op = "send", !.route = TRUE,
                            !.caller = sender_id, !.sender_id = sender_id,
                            !.receiver_id = receiver_id, !.invoked = TRUE]
       IN calls' = [calls EXCEPT ![c] =
                IF IsSelfRequest(sender_id, receiver_id)
                THEN [started EXCEPT !.pc = "done", !.result = "false",
                                     !.http = HttpStatus("send", "false")]
                ELSE [started EXCEPT !.pc = "get_friendship"]]
    /\ UNCHANGED <<friend_requests, friend_status, serial, users, outside_friends>>

\* existing_friendship = await self.get_document(friends_collection, status_key):
\* a failed read is reported as None.
SendGetFriendship(c) ==
    /\ calls[c].op = "send" /\ calls[c].pc = "get_friendship"
    /\ \E ok \in BOOLEAN :
        LET existing_friendship ==
                ok /\ ExistingFriendship(calls[c].sender_id, calls[c].receiver_id)
        IN calls' = [calls EXCEPT ![c] =
                IF existing_friendship THEN Finish(c, "false")
                ELSE [calls[c] EXCEPT !.pc = "query1"]]
    /\ UNCHANGED <<friend_requests, friend_status, serial, users, outside_friends>>

\* existing_sent_docs = await query1.get(): a failed query raises.
SendQuerySent(c) ==
    /\ calls[c].op = "send" /\ calls[c].pc = "query1"
    /\ \E ok \in BOOLEAN :
        calls' = [calls EXCEPT ![c] =
            IF ~ok THEN Finish(c, "raise")
            ELSE [calls[c] EXCEPT !.pc = "query2",
                    !.existing_sent =
                        ExistingSentDocs(calls[c].sender_id, calls[c].receiver_id) # {}]]
    /\ UNCHANGED <<friend_requests, friend_status, serial, users, outside_friends>>

\* existing_received_docs = await query2.get(), then the check of both results.
SendQueryReceived(c) ==
    /\ calls[c].op = "send" /\ calls[c].pc = "query2"
    /\ \E ok \in BOOLEAN :
        LET existing_received ==
                ExistingReceivedDocs(calls[c].sender_id, calls[c].receiver_id) # {}
        IN calls' = [calls EXCEPT ![c] =
                IF ~ok THEN Finish(c, "raise")
                ELSE IF calls[c].existing_sent \/ existing_received
                     THEN Finish(c, "false")
                     ELSE [calls[c] EXCEPT !.pc = "set_request"]]
    /\ UNCHANGED <<friend_requests, friend_status, serial, users, outside_friends>>

\* return await self.set_document(requests_collection, request.request_id, ...)
SendSetRequest(c) ==
    /\ calls[c].op = "send" /\ calls[c].pc = "set_request"
    /\ \E ok \in BOOLEAN :
        IF ok
        THEN LET request == NewFriendRequest(FreshRequestId, calls[c].sender_id,
                                             calls[c].receiver_id)
             IN /\ friend_requests' =
                        SetDoc(friend_requests, request.request_id, request)
                /\ calls' = [calls EXCEPT ![c] = Finish(c, "true")]
        ELSE /\ calls' = [calls EXCEPT ![c] = Finish(c, "false")]
             /\ UNCHANGED friend_requests
    /\ UNCHANGED <<friend_status, serial, users, outside_friends>>

\* ------------------------------------------------------------- respond_to_request
\* A faulty receiver check: every caller is let through.
EveryoneIsReceiver(request_obj, uid) == FALSE

\* A faulty pending check: a request that has been answered still counts as pending.
AlwaysPending(request) == FALSE

\* request_obj.receiver_id != current_user.uid
NotTheReceiver(request_obj, uid) == request_obj.receiver_id # uid

\* request.status != FriendRequestStatus.PENDING
NotPending(request) == request.status # PENDING

\* A faulty status: every answer is stored as a rejection.
AlwaysRejected(accept) == REJECTED

\* A faulty status: an accepted request is left pending.
AcceptLeftPending(accept) == IF accept THEN PENDING ELSE REJECTED

\* status = ACCEPTED if accept else REJECTED
RespondStatus(accept) == IF accept THEN ACCEPTED ELSE REJECTED

\* POST /friends/requests/{request_id}/respond by uid: the handler starts.
RouteRespondToRequest(c, uid, request_id, accept) ==
    /\ CanStart(c)
    /\ calls' = [calls EXCEPT ![c] =
            [Idle EXCEPT !.op = "respond", !.pc = "route_get", !.route = TRUE,
                         !.caller = uid, !.request_id = request_id,
                         !.accept = accept]]
    /\ UNCHANGED <<friend_requests, friend_status, serial, users, outside_friends>>

\* request_obj = await friend_service.get_friend_request(request_id), then the
\* 404 and 403 checks; a failed read is reported as None.
RouteGetFriendRequest(c) ==
    /\ calls[c].op = "respond" /\ calls[c].pc = "route_get"
    /\ \E ok \in BOOLEAN :
        LET found == ok /\ calls[c].request_id \in DOMAIN friend_requests
        IN calls' = [calls EXCEPT ![c] =
                IF ~found THEN Reject(c, 404)
                ELSE IF NotTheReceiver(friend_requests[calls[c].request_id],
                                       calls[c].caller)
                     THEN Reject(c, 403)
                     ELSE [calls[c] EXCEPT !.pc = "get_request", !.invoked = TRUE]]
    /\ UNCHANGED <<friend_requests, friend_status, serial, users, outside_friends>>

\* respond_to_request(request_id, accept) called on the service itself.
RespondToRequest(c, request_id, accept) ==
    /\ CanStart(c)
    /\ calls' = [calls EXCEPT ![c] =
            [Idle EXCEPT !.op = "respond", !.pc = "get_request",
                         !.request_id = request_id, !.accept = accept,
                         !.invoked = TRUE]]
    /\ UNCHANGED <<friend_requests, friend_status, serial, users, outside_friends>>

\* request_data = await self.get_document(requests_collection, request_id), then
\* the not-found and not-pending checks.
RespondGetRequest(c) ==
    /\ calls[c].op = "respond" /\ calls[c].pc = "get_request"
    /\ \E ok \in BOOLEAN :
        LET found == ok /\ calls[c].request_id \in DOMAIN friend_requests
            request == friend_requests[calls[c].request_id]
        IN calls' = [calls EXCEPT ![c] =
                IF ~found THEN Finish(c, "false")
                ELSE IF NotPending(request) THEN Finish(c, "false")
                     ELSE [calls[c] EXCEPT !.pc = "update_status",
                                           !.sender_id = request.sender_id,
                                           !.receiver_id = request.receiver_id]]
    /\ UNCHANGED <<friend_requests, friend_status, serial, users, outside_friends>>

\* update_success = await self.update_document(requests_collection, request_id,
\* {'status': status.value, ...}); on an accept friend_status1 is built next.
RespondUpdateStatus(c) ==
    /\ calls[c].op = "respond" /\ calls[c].pc = "update_status"
    /\ \E ok \in BOOLEAN :
        IF ok
        THEN /\ friend_requests' =
                    [friend_requests EXCEPT ![calls[c].request_id].status =
                        RespondStatus(calls[c].accept)]
             /\ calls' = [calls EXCEPT ![c] =
                    IF calls[c].accept
                    THEN [calls[c] EXCEPT !.pc = "construct2",
                            !.friend_status1 =
                                NewFriendStatus(calls[c].sender_id,
                                                calls[c].receiver_id, now)]
                    ELSE Finish(c, "true")]
        ELSE /\ calls' = [calls EXCEPT ![c] = Finish(c, "false")]
             /\ UNCHANGED friend_requests
    /\ UNCHANGED <<friend_status, serial, users, outside_friends>>

\* friend_status2 = FriendStatus(user_id=request.receiver_id, ...): the clock
\* is read again.
RespondConstruct(c) ==
    /\ calls[c].op = "respond" /\ calls[c].pc = "construct2"
    /\ calls' = [calls EXCEPT ![c] =
            [calls[c] EXCEPT !.pc = "set_status1",
                !.friend_status2 =
                    NewFriendStatus(calls[c].receiver_id, calls[c].sender_id, now)]]
    /\ UNCHANGED <<friend_requests, friend_status, serial, users, outside_friends>>

\* A faulty check: one stored FriendStatus is enough.
EitherSet(set1_success, set2_success) == set1_success \/ set2_success

\* set1_success and set2_success
BothSet(set1_success, set2_success) == set1_success /\ set2_success

\* set1_success = await self.set_document(friends_collection, status_key1, ...)
RespondSetStatus1(c) ==
    /\ calls[c].op = "respond" /\ calls[c].pc = "set_status1"
    /\ \E ok \in BOOLEAN :
        /\ friend_status' =
                IF ok
                THEN SetDoc(friend_status,
                            StatusKey(calls[c].sender_id, calls[c].receiver_id),
                            calls[c].friend_status1)
                ELSE friend_status
        /\ calls' = [calls EXCEPT ![c] =
                [calls[c] EXCEPT !.pc = "set_status2", !.set1_success = ok]]
    /\ UNCHANGED <<friend_requests, serial, users, outside_friends>>

\* set2_success = await self.set_document(friends_collection, status_key2, ...),
\* then the check of both results.
RespondSetStatus2(c) ==
    /\ calls[c].op = "respond" /\ calls[c].pc = "set_status2"
    /\ \E ok \in BOOLEAN :
        /\ friend_status' =
                IF ok
                THEN SetDoc(friend_status,
                            StatusKey(calls[c].receiver_id, calls[c].sender_id),
                            calls[c].friend_status2)
                ELSE friend_status
        /\ calls' = [calls EXCEPT ![c] =
                IF BothSet(calls[c].set1_success, ok)
                THEN Finish(c, "true") ELSE Finish(c, "false")]
    /\ UNCHANGED <<friend_requests, serial, users, outside_friends>>

\* ------------------------------------------------------------- remove_friend
\* A faulty removal: only the caller's own document is deleted.
DeleteFirstOnly(coll, status_key1, status_key2) ==
    [k \in DOMAIN coll \ {status_key1} |-> coll[k]]

\* delete_in_transaction(transaction, ref1, ref2): both deletes commit together.
DeleteInTransaction(coll, status_key1, status_key2) ==
    DeleteDoc(DeleteDoc(coll, status_key1), status_key2)

\* DELETE /friends/{friend_id} by user_id: the handler calls remove_friend.
RemoveFriend(c, user_id, friend_id) ==
    /\ CanStart(c)
    /\ calls' = [calls EXCEPT ![c] =
            [Idle EXCEPT !.op = "remove", !.pc = "transaction", !.route = TRUE,
                         !.caller = user_id, !.sender_id = user_id,
                         !.receiver_id = friend_id, !.invoked = TRUE]]
    /\ UNCHANGED <<friend_requests, friend_status, serial, users, outside_friends>>

\* await delete_in_transaction(transaction, doc_ref1, doc_ref2): a transaction
\* that raises applies nothing.
RemoveTransaction(c) ==
    /\ calls[c].op = "remove" /\ calls[c].pc = "transaction"
    /\ \E ok \in BOOLEAN :
        IF ok
        THEN /\ friend_status' =
                    DeleteInTransaction(friend_status,
                        StatusKey(calls[c].sender_id, calls[c].receiver_id),
                        StatusKey(calls[c].receiver_id, calls[c].sender_id))
             /\ calls' = [calls EXCEPT ![c] = Finish(c, "true")]
        ELSE /\ calls' = [calls EXCEPT ![c] = Finish(c, "false")]
             /\ UNCHANGED friend_status
    /\ UNCHANGED <<friend_requests, serial, users, outside_friends>>

\* The handler's answer has been delivered; the slot is free again.
Return(c) ==
    /\ calls[c].pc = "done"
    /\ calls' = [calls EXCEPT ![c] = Idle]
    /\ UNCHANGED <<friend_requests, friend_status, serial, users, outside_friends>>

\* ------------------------------------------------------------- specification
Next ==
    \E c \in Slots :
        \/ \E s \in users, r \in users : SendFriendRequest(c, s, r)
        \/ SendGetFriendship(c)
        \/ SendQuerySent(c)
        \/ SendQueryReceived(c)
        \/ SendSetRequest(c)
        \/ \E u \in users, r \in RequestIds, accept \in BOOLEAN :
                RouteRespondToRequest(c, u, r, accept)
        \/ RouteGetFriendRequest(c)
        \/ \E r \in RequestIds, accept \in BOOLEAN : RespondToRequest(c, r, accept)
        \/ RespondGetRequest(c)
        \/ RespondUpdateStatus(c)
        \/ RespondConstruct(c)
        \/ RespondSetStatus1(c)
        \/ RespondSetStatus2(c)
        \/ \E u \in users, f \in users : RemoveFriend(c, u, f)
        \/ RemoveTransaction(c)
        \/ Return(c)

\* Handlers run concurrently, interleaved at their awaits.
Spec == Init /\ [][Next]_vars

\* Each handler runs to completion before the next one starts.
SpecSerial == InitSerial /\ [][Next]_vars

\* Only POST /friends/requests is called, by any of the accounts, the calls
\* interleaved at their awaits.
InitSend ==
    /\ friend_requests = <<>>
    /\ friend_status = <<>>
    /\ calls = [c \in Slots |-> Idle]
    /\ serial = FALSE
    /\ users \in UserSets
    /\ AuthStart /\ HistoryStart /\ AnalyticsStart

NextSend ==
    \E c \in Slots :
        \/ \E s \in users, r \in users : SendFriendRequest(c, s, r)
        \/ SendGetFriendship(c)
        \/ SendQuerySent(c)
        \/ SendQueryReceived(c)
        \/ SendSetRequest(c)
        \/ Return(c)

SpecSend == InitSend /\ [][NextSend]_vars

\* ------------------------------------------------------------- update_last_interaction
InteractionGameIds == {NoLastGame, "g1"}

\* POST /friends/{friend_id}/interactions by user_id: the handler calls
\* update_last_interaction, which builds its updates, the clock read included,
\* before it awaits the store.
UpdateFriendInteraction(c, user_id, friend_id, game_id) ==
    /\ CanStart(c)
    /\ \A k \in DOMAIN friend_status :
            friend_status[k].games_played < MaxInteractions
    /\ calls' = [calls EXCEPT ![c] =
            [Idle EXCEPT !.op = "interaction", !.pc = "update_status",
                         !.route = TRUE, !.caller = user_id,
                         !.sender_id = user_id, !.receiver_id = friend_id,
                         !.game_id = game_id, !.last_interaction = now,
                         !.invoked = TRUE]]
    /\ UNCHANGED <<friend_requests, friend_status, serial, users, outside_friends>>

\* The updates applied to the stored document: Increment(1) on games_played,
\* last_interaction, and last_game if game_id is truthy.
InteractionUpdates(doc, last_interaction, game_id) ==
    [doc EXCEPT !.last_interaction = last_interaction,
                !.games_played = @ + 1,
                !.last_game = IF game_id # NoLastGame THEN game_id ELSE @]

\* return await self.update_document(friends_collection, status_key, updates):
\* updating a document that does not exist fails.
InteractionUpdateDocument(c) ==
    /\ calls[c].op = "interaction" /\ calls[c].pc = "update_status"
    /\ \E ok \in BOOLEAN :
        LET status_key == StatusKey(calls[c].sender_id, calls[c].receiver_id)
        IN IF ok /\ status_key \in DOMAIN friend_status
           THEN /\ friend_status' =
                      [friend_status EXCEPT ![status_key] =
                          InteractionUpdates(@, calls[c].last_interaction,
                                             calls[c].game_id)]
                /\ calls' = [calls EXCEPT ![c] = Finish(c, "true")]
           ELSE /\ calls' = [calls EXCEPT ![c] = Finish(c, "false")]
                /\ UNCHANGED friend_status
    /\ UNCHANGED <<friend_requests, serial, users, outside_friends>>

\* ------------------------------------------------------------- claims
\* The pending requests between u and v, in either direction.
PendingBetween(u, v) ==
    {r \in DOMAIN friend_requests :
        /\ friend_requests[r].status = "pending"
        /\ \/ friend_requests[r].sender_id = u /\ friend_requests[r].receiver_id = v
           \/ friend_requests[r].sender_id = v /\ friend_requests[r].receiver_id = u}

\* The document FriendStatus(u, v) is in the store.
HasFriendStatus(u, v) == (u \o "_" \o v) \in DOMAIN friend_status

\* get_friends(u) lists v.
FriendsContain(u, v) ==
    \E k \in DOMAIN friend_status :
        friend_status[k].user_id = u /\ friend_status[k].friend_id = v

Running(c, op) == calls[c].op = op /\ calls[c].pc # "done"
Done(c, op) == calls[c].op = op /\ calls[c].pc = "done"

\* C1: sendRequest(A, B) returns false and creates no FriendRequest document
\* whenever FriendStatus(A,B) exists or a pending request exists between A and
\* B in either direction.  Calls run one at a time, so the store a step of the
\* call sees is the store the call started on.  A call that ends by raising
\* is read here as a refusal too: the formula only forbids a created document
\* and an answer of true.
C1_SendRefusedWhenBlocked ==
    [][\A c \in Slots :
        (/\ Running(c, "send")
         /\ \/ HasFriendStatus(calls[c].sender_id, calls[c].receiver_id)
            \/ PendingBetween(calls[c].sender_id, calls[c].receiver_id) # {})
        => /\ friend_requests' = friend_requests
           /\ calls'[c].pc = "done" => calls'[c].result \in {"false", "raise"}]_vars

\* C2: when calls run one at a time, at most one pending request exists
\* between any two users, counting both directions.
C2_AtMostOnePending ==
    \A u \in Users, v \in Users : Cardinality(PendingBetween(u, v)) <= 1

\* C2 witness: a pending request stands between two users and a further
\* sendRequest between them has been refused.
C2_Witness ==
    \E c \in Slots :
        /\ Done(c, "send") /\ calls[c].result = "false"
        /\ calls[c].sender_id # calls[c].receiver_id
        /\ ~HasFriendStatus(calls[c].sender_id, calls[c].receiver_id)
        /\ \E r \in PendingBetween(calls[c].sender_id, calls[c].receiver_id) :
                friend_requests[r].sender_id = calls[c].receiver_id

\* C3: a request whose status is accepted or rejected never changes status
\* again, under any interleaving of respondToRequest calls.
C3_StatusChangesOnce ==
    [][\A r \in DOMAIN friend_requests :
        friend_requests[r].status # "pending"
        => friend_requests'[r].status = friend_requests[r].status]_vars

\* C4: when respondToRequest(id, true) on a pending request A->B returns true,
\* the request is accepted, FriendStatus(A,B) and FriendStatus(B,A) exist,
\* getFriends(A) contains B and getFriends(B) contains A.
C4_AcceptMakesMutualFriends ==
    \A c \in Slots :
        (Done(c, "respond") /\ calls[c].accept /\ calls[c].result = "true")
        => /\ friend_requests[calls[c].request_id].status = "accepted"
           /\ HasFriendStatus(calls[c].sender_id, calls[c].receiver_id)
           /\ HasFriendStatus(calls[c].receiver_id, calls[c].sender_id)
           /\ FriendsContain(calls[c].sender_id, calls[c].receiver_id)
           /\ FriendsContain(calls[c].receiver_id, calls[c].sender_id)

\* C5: whenever no respondToRequest or removeFriend call is in progress,
\* FriendStatus(A,B) exists if and only if FriendStatus(B,A) exists, also in
\* runs where store writes fail.
C5_FriendshipSymmetric ==
    (\A c \in Slots : ~Running(c, "respond") /\ ~Running(c, "remove"))
    => \A u \in Users, v \in Users : HasFriendStatus(u, v) <=> HasFriendStatus(v, u)

\* C6: a removeFriend(A, B) that returns true leaves neither FriendStatus(A,B)
\* nor FriendStatus(B,A), so getFriends(A) is without B and getFriends(B)
\* without A; and no step of removeFriend deletes one of the two documents
\* while the other stays.
C6_RemoveDeletesBoth ==
    [][\A c \in Slots :
        (Running(c, "remove") /\ calls'[c] # calls[c])
        => LET A == calls[c].sender_id
               B == calls[c].receiver_id
           IN /\ calls'[c].result = "true"
                 => /\ ~HasFriendStatus(A, B)' /\ ~HasFriendStatus(B, A)'
                    /\ ~FriendsContain(A, B)' /\ ~FriendsContain(B, A)'
              /\ ~(HasFriendStatus(A, B) /\ ~HasFriendStatus(A, B)' /\ HasFriendStatus(B, A)')
              /\ ~(HasFriendStatus(B, A) /\ ~HasFriendStatus(B, A)' /\ HasFriendStatus(A, B)')
              /\ calls'[c].result = "false" => friend_status' = friend_status]_vars

\* C6 witness: two users whose request was accepted and whose removeFriend has
\* returned true, with neither mirrored document left.
C6_Witness ==
    \E c \in Slots :
        /\ Done(c, "remove") /\ calls[c].result = "true"
        /\ calls[c].sender_id # calls[c].receiver_id
        /\ \E r \in DOMAIN friend_requests :
                /\ friend_requests[r].status = "accepted"
                /\ {friend_requests[r].sender_id, friend_requests[r].receiver_id}
                        = {calls[c].sender_id, calls[c].receiver_id}
        /\ ~HasFriendStatus(calls[c].sender_id, calls[c].receiver_id)
        /\ ~HasFriendStatus(calls[c].receiver_id, calls[c].sender_id)

\* C7: a respondToRequest(id, false) that returns true leaves the request
\* rejected and creates no FriendStatus document; every later
\* respondToRequest on that id, accepting or rejecting, returns false and
\* changes neither the request nor any FriendStatus document.
C7_RejectIsFinal ==
    [][\A c \in Slots :
        (Running(c, "respond") /\ calls[c].invoked /\ calls'[c] # calls[c])
        => LET id == calls[c].request_id
           IN /\ (~calls[c].accept /\ calls'[c].result = "true")
                 => /\ friend_requests'[id].status = "rejected"
                    /\ friend_status' = friend_status
              /\ ~calls[c].accept => friend_status' = friend_status
              /\ (id \in DOMAIN friend_requests /\ friend_requests[id].status = "rejected")
                 => /\ friend_requests' = friend_requests
                    /\ friend_status' = friend_status
                    /\ calls'[c].pc = "done" /\ calls'[c].result = "false"]_vars

\* C7 witness: a respondToRequest on an already rejected request has returned
\* false.
C7_Witness ==
    \E c \in Slots :
        /\ Done(c, "respond") /\ calls[c].invoked /\ calls[c].result = "false"
        /\ calls[c].accept
        /\ calls[c].request_id \in DOMAIN friend_requests
        /\ friend_requests[calls[c].request_id].status = "rejected"

\* C8: for A # B, when sendRequest(A, B) has returned true and nothing has
\* responded yet, getPendingRequests(B) holds a request with sender_id = A,
\* receiver_id = B and status pending.
C8_SentRequestIsPending ==
    \A c \in Slots :
        (Done(c, "send") /\ calls[c].result = "true")
        => \E request \in GetPendingRequests(calls[c].receiver_id) :
                /\ request.sender_id = calls[c].sender_id
                /\ request.receiver_id = calls[c].receiver_id
                /\ request.status = "pending"

\* C8 witness: a sendRequest between two different users has returned true.
C8_Witness ==
    \E c \in Slots :
        /\ Done(c, "send") /\ calls[c].result = "true"
        /\ calls[c].sender_id # calls[c].receiver_id
        /\ friend_requests # <<>>

\* C9: sendRequest(A, A) returns false in every state, the route answers 409,
\* and no request from a user to themselves is ever stored.
C9_SelfRequestRefused ==
    /\ \A c \in Slots :
        (calls[c].op = "send" /\ calls[c].sender_id = calls[c].receiver_id)
        => calls[c].pc = "done" /\ calls[c].result = "false" /\ calls[c].http = 409
    /\ \A r \in DOMAIN friend_requests :
        friend_requests[r].sender_id # friend_requests[r].receiver_id

\* C9 witness: a request to oneself has been refused while the store already
\* holds requests and friendships.
C9_Witness ==
    \E c \in Slots :
        /\ Done(c, "send") /\ calls[c].sender_id = calls[c].receiver_id
        /\ calls[c].http = 409
        /\ friend_requests # <<>> /\ friend_status # <<>>

\* A step of the respond route in slot c changes a request's status only for
\* a caller who is the request's receiver, and a call that ends 404 or 403
\* has not invoked respondToRequest and has changed no document.
RouteGuards(c) ==
    /\ friend_requests' # friend_requests
       => calls[c].caller = friend_requests[calls[c].request_id].receiver_id
    /\ (calls'[c].pc = "done" /\ calls'[c].http \in {403, 404})
       => /\ ~calls'[c].invoked
          /\ friend_requests' = friend_requests
          /\ friend_status' = friend_status
    /\ (calls[c].pc = "route_get" /\ calls[c].request_id \notin DOMAIN friend_requests)
       => calls'[c].pc = "done" /\ calls'[c].http = 404

\* C10 as stated: besides RouteGuards, every call by someone other than the
\* request's receiver is answered 403.
C10_AsStated ==
    [][\A c \in Slots :
        (Running(c, "respond") /\ calls[c].route /\ calls'[c] # calls[c])
        => /\ RouteGuards(c)
           /\ (/\ calls[c].pc = "route_get"
               /\ calls[c].request_id \in DOMAIN friend_requests
               /\ friend_requests[calls[c].request_id].receiver_id # calls[c].caller)
              => calls'[c].pc = "done" /\ calls'[c].http = 403]_vars

\* C10 amended: besides RouteGuards, every call by someone other than the
\* request's receiver is answered 403, or 404 when the read of the request
\* fails.
C10_RespondOnlyByReceiver ==
    [][\A c \in Slots :
        (Running(c, "respond") /\ calls[c].route /\ calls'[c] # calls[c])
        => /\ RouteGuards(c)
           /\ (/\ calls[c].pc = "route_get"
               /\ calls[c].request_id \in DOMAIN friend_requests
               /\ friend_requests[calls[c].request_id].receiver_id # calls[c].caller)
              => calls'[c].pc = "done" /\ calls'[c].http \in {403, 404}]_vars

\* C10 witness: the sender of a pending request has called the respond route
\* on it and has been answered 403, the request still pending.
C10_Witness ==
    \E c \in Slots :
        /\ Done(c, "respond") /\ calls[c].route /\ calls[c].http = 403
        /\ calls[c].request_id \in DOMAIN friend_requests
        /\ friend_requests[calls[c].request_id].sender_id = calls[c].caller
        /\ friend_requests[calls[c].request_id].status = "pending"

\* C19: two concurrent sendRequest calls for the same unordered pair can both
\* pass the checks and both write.  A call that has passed its checks writes
\* its request whatever has been stored since: when its write succeeds while a
\* pending request between the pair is already stored, the pair has one more
\* pending request than before.
C19_RacingSendsBothWrite ==
    [][\A c \in Slots :
        (/\ Running(c, "send") /\ calls[c].pc = "set_request"
         /\ PendingBetween(calls[c].sender_id, calls[c].receiver_id) # {}
         /\ calls'[c].pc = "done" /\ calls'[c].result = "true")
        => Cardinality(PendingBetween(calls[c].sender_id, calls[c].receiver_id))'
            = Cardinality(PendingBetween(calls[c].sender_id,
                                         calls[c].receiver_id)) + 1]_vars

\* C19 witness: two sendRequest calls have both returned true and two pending
\* requests between the same pair are stored.
C19_Witness ==
    \E u \in Users, v \in Users :
        /\ Cardinality(PendingBetween(u, v)) = 2
        /\ \A c \in Slots : Done(c, "send") /\ calls[c].result = "true"
                            /\ {calls[c].sender_id, calls[c].receiver_id} = {u, v}

\* C20: no FriendRequest between A and B is ever created while a FriendStatus
\* document exists for the pair in either direction, whichever of the two is
\* the sender.  A step that stores a new request finds no FriendStatus(A,B)
\* and no FriendStatus(B,A) in the store.
C20_NoRequestBetweenFriends ==
    [][\A r \in DOMAIN friend_requests' \ DOMAIN friend_requests :
        /\ ~HasFriendStatus(friend_requests'[r].sender_id,
                            friend_requests'[r].receiver_id)
        /\ ~HasFriendStatus(friend_requests'[r].receiver_id,
                            friend_requests'[r].sender_id)]_vars

\* ============================================================= session tokens
\* ------------------------------------------------------------- the clock
HourTicks == 60 * 60 * TicksPerSecond

\* timegm(dt.utctimetuple()): the whole seconds of an instant.
Seconds(t) == t \div TicksPerSecond

\* timedelta(seconds=n), timedelta(minutes=n)
TimedeltaSeconds(n) == n * TicksPerSecond
TimedeltaMinutes(n) == n * 60 * TicksPerSecond

Tick ==
    /\ now % HourTicks < MaxTicks
    /\ now' = now + 1
    /\ UNCHANGED <<issued, req, outside_auth>>

AdvanceHour ==
    /\ now < MaxHours * HourTicks
    /\ now' = now + HourTicks
    /\ UNCHANGED <<issued, req, outside_auth>>

\* ------------------------------------------------------------- utils/jwt_utils.py
SECRET_KEY == "JWT_SECRET_KEY"
ACCESS_TOKEN_EXPIRE_MINUTES == 60

\* expires_delta: Optional[timedelta] = None
None == -1
\* A payload without the 'uid' claim.
NoUid == ""
ExpiresDeltas == {None, TimedeltaSeconds(0), TimedeltaSeconds(1)}
Uids == {"u", NoUid}

\* if expires_delta: ... else: ... -- timedelta(0) is falsy, like None.
Expire(expires_delta, t) ==
    IF expires_delta # None /\ expires_delta # TimedeltaSeconds(0)
    THEN t + expires_delta
    ELSE t + TimedeltaMinutes(ACCESS_TOKEN_EXPIRE_MINUTES)

\* jwt.encode(to_encode, SECRET_KEY, algorithm=ALGORITHM): the datetime 'exp'
\* becomes whole epoch seconds.
JwtEncode(uid, expire, key) ==
    [format |-> "jwt", key |-> key, uid |-> uid, exp |-> Seconds(expire)]

create_access_token(uid, expires_delta, t) ==
    JwtEncode(uid, Expire(expires_delta, t), SECRET_KEY)

\* jose's expiry validation: exp < timegm(now.utctimetuple()).
Expired(exp, t) == exp < Seconds(t)

\* "uid" not in payload
MissingUid(uid) == uid = NoUid

\* jwt.decode(token, SECRET_KEY, algorithms=[ALGORITHM], ...) raises on a
\* malformed token, a signature made with another key, an expired 'exp'.
JwtDecodeRaises(token, t) ==
    \/ token.format # "jwt"
    \/ token.key # SECRET_KEY
    \/ Expired(token.exp, t)

\* verify_token(token) returns the payload; otherwise HTTPException(401) with
\* headers {"WWW-Authenticate": "Bearer"}.
VerifyTokenOk(token, t) ==
    ~JwtDecodeRaises(token, t) /\ ~MissingUid(token.uid)

\* Tokens nobody issued: not a JWT at all, and a JWT signed with another key.
MalformedToken == [format |-> "this.is.invalid", key |-> "", uid |-> "", exp |-> 0]
ForgedToken ==
    [format |-> "jwt", key |-> "a-completely-different-secret", uid |-> "u",
     exp |-> Seconds(MaxHours * HourTicks) + HourTicks]

\* create_access_token(data, expires_delta) called at 'now'.  Tokens are
\* created in the first ticks of a run, so that the clock can pass the expiry
\* of each.
CreateAccessToken(uid, expires_delta) ==
    /\ req.stage = "idle"
    /\ Cardinality(issued) < MaxTokens /\ now <= MaxTicks
    /\ issued' = issued \cup
            {[token |-> create_access_token(uid, expires_delta, now),
              issued_at |-> now, expires_delta |-> expires_delta]}
    /\ UNCHANGED <<now, req, outside_auth>>

\* ------------------------------------------------------------- the request path
Paths == {"/docs", "/auth/token", "/auth/verify", "/friends/list"}

\* The method each route is registered with.
RouteMethod(path) == IF path = "/auth/token" THEN "POST" ELSE "GET"

\* The methods a client tries on a path: the registered one and OPTIONS.
Methods(path) == {RouteMethod(path), "OPTIONS"}

\* default_exclude_paths
ExcludedPath(path) == path \in {"/auth/token", "/", "/docs", "/openapi.json",
                                "/redoc", "/favicon.ico"}

\* Routes that declare Depends(get_current_user).
NeedsCurrentUser(path) == path \notin {"/docs", "/auth/token", "/auth/verify"}

Authorizations ==
    {NoAuthorization}
    \cup {[scheme |-> sch, credentials |-> t] :
            sch \in {"Bearer", "NotBearer"},
            t \in {i.token : i \in issued} \cup {MalformedToken, ForgedToken}}

\* A faulty bearer check: the scheme is not looked at.
AnyScheme(authorization) == authorization.scheme = ""

\* HTTPBearer(): HTTPException(403) when the header is missing or its scheme is
\* not Bearer.
SecurityRaises(authorization) == authorization.scheme # "Bearer"

Respond(status_code, www_authenticate) ==
    [req EXCEPT !.stage = "done", !.status = status_code,
                !.www_authenticate = www_authenticate]

\* A client sends a request.
Request(path, method, authorization) ==
    /\ req.stage = "idle"
    /\ req' = [NoRequest EXCEPT !.stage = "middleware", !.path = path,
                                !.method = method,
                                !.authorization = authorization]
    /\ UNCHANGED <<now, issued, outside_auth>>

\* FirebaseAuthMiddleware.__call__
Middleware ==
    /\ req.stage = "middleware"
    /\ req' =
        IF ExcludedPath(req.path) \/ req.method = "OPTIONS"
        THEN [req EXCEPT !.stage = "route"]
        ELSE IF SecurityRaises(req.authorization)
        THEN Respond(403, FALSE)
        ELSE IF ~VerifyTokenOk(req.authorization.credentials, now)
        THEN Respond(401, TRUE)
        ELSE [req EXCEPT !.stage = "route"]
    /\ UNCHANGED <<now, issued, outside_auth>>

\* The router: a path answers only the method it is registered with.
RouteMethodNotAllowed ==
    /\ req.stage = "route"
    /\ req.method # RouteMethod(req.path)
    /\ req' = Respond(405, FALSE)
    /\ UNCHANGED <<now, issued, outside_auth>>

\* GET /docs: served without authentication.
RouteDocs ==
    /\ req.stage = "route" /\ req.path = "/docs"
    /\ req.method = RouteMethod(req.path)
    /\ req' = Respond(200, FALSE)
    /\ UNCHANGED <<now, issued, outside_auth>>

\* POST /auth/token: get_token, the identity provider accepting the firebase
\* token or not.
RouteGetToken ==
    /\ req.stage = "route" /\ req.path = "/auth/token"
    /\ req.method = RouteMethod(req.path)
    /\ \E firebase_ok \in BOOLEAN :
        IF firebase_ok
        THEN /\ Cardinality(issued) < MaxTokens /\ now <= MaxTicks
             /\ issued' = issued \cup
                    {[token |-> create_access_token("u", None, now),
                      issued_at |-> now, expires_delta |-> None]}
             /\ req' = [Respond(200, FALSE) EXCEPT !.handler = TRUE]
        ELSE /\ req' = [Respond(401, TRUE) EXCEPT !.handler = TRUE]
             /\ UNCHANGED issued
    /\ UNCHANGED <<now, outside_auth>>

\* GET /auth/verify: Depends(security), then verify_access_token.
RouteVerifyAccessToken ==
    /\ req.stage = "route" /\ req.path = "/auth/verify"
    /\ req.method = RouteMethod(req.path)
    /\ req' =
        IF SecurityRaises(req.authorization)
        THEN Respond(403, FALSE)
        ELSE IF ~VerifyTokenOk(req.authorization.credentials, now)
        THEN [Respond(401, TRUE) EXCEPT !.handler = TRUE]
        ELSE [Respond(200, FALSE) EXCEPT !.handler = TRUE]
    /\ UNCHANGED <<now, issued, outside_auth>>

\* Any route with Depends(get_current_user): the dependency, then the handler
\* and its service operation.
RouteGetCurrentUser ==
    /\ req.stage = "route" /\ NeedsCurrentUser(req.path)
    /\ req.method = RouteMethod(req.path)
    /\ req' =
        IF SecurityRaises(req.authorization)
        THEN Respond(403, FALSE)
        ELSE IF ~VerifyTokenOk(req.authorization.credentials, now)
        THEN Respond(401, TRUE)
        ELSE [Respond(200, FALSE) EXCEPT !.handler = TRUE]
    /\ UNCHANGED <<now, issued, outside_auth>>

\* The response has been sent.
ResponseSent ==
    /\ req.stage = "done"
    /\ req' = NoRequest
    /\ UNCHANGED <<now, issued, outside_auth>>

InitAuth ==
    AuthStart /\ FriendsStart /\ serial = TRUE /\ HistoryStart /\ AnalyticsStart

NextAuth ==
    \/ Tick
    \/ AdvanceHour
    \/ \E uid \in Uids, expires_delta \in ExpiresDeltas :
            CreateAccessToken(uid, expires_delta)
    \/ \E path \in Paths, authorization \in Authorizations :
            \E method \in Methods(path) : Request(path, method, authorization)
    \/ Middleware
    \/ RouteMethodNotAllowed
    \/ RouteDocs
    \/ RouteGetToken
    \/ RouteVerifyAccessToken
    \/ RouteGetCurrentUser
    \/ ResponseSent

SpecAuth == InitAuth /\ [][NextAuth]_vars

\* Every friend handler, interactions included, one call at a time.
NextInteract ==
    \/ Next
    \/ \E c \in Slots :
        \/ \E u \in users, f \in users, g \in InteractionGameIds :
                UpdateFriendInteraction(c, u, f, g)
        \/ InteractionUpdateDocument(c)

SpecInteract == InitSerial /\ [][NextInteract]_vars

\* Requests are sent and answered, one call at a time, while the clock runs.
NextAccept ==
    \/ \E c \in Slots :
        \/ \E s \in users, r \in users : SendFriendRequest(c, s, r)
        \/ SendGetFriendship(c)
        \/ SendQuerySent(c)
        \/ SendQueryReceived(c)
        \/ SendSetRequest(c)
        \/ \E r \in RequestIds, accept \in BOOLEAN : RespondToRequest(c, r, accept)
        \/ RespondGetRequest(c)
        \/ RespondUpdateStatus(c)
        \/ RespondConstruct(c)
        \/ RespondSetStatus1(c)
        \/ RespondSetStatus2(c)
        \/ Return(c)
    \/ Tick

SpecAccept == InitSerial /\ [][NextAccept]_vars

\* ------------------------------------------------------------- claims
\* The request in flight is for a route behind the authentication gate.
GuardedRoute ==
    /\ req.stage \in {"middleware", "route"}
    /\ req.path \notin {"/", "/docs", "/auth/token"}
    /\ req.method = RouteMethod(req.path)

\* The token is one the verifier is meant to accept at time t: a JWT under the
\* server key with a uid, whose exp second has not passed.
TokenAccepted(token, t) ==
    /\ token.format = "jwt" /\ token.key = "JWT_SECRET_KEY" /\ token.uid # ""
    /\ token.exp >= t \div TicksPerSecond

\* The request is answered 401 with WWW-Authenticate, and no handler that
\* calls a service has run.
Answered401 ==
    /\ req'.stage = "done" /\ req'.status = 401 /\ req'.www_authenticate
    /\ req'.handler => req.path = "/auth/verify"

\* C11 as stated: on every route except root/docs/token exchange, a missing,
\* invalid or expired token yields 401 with a WWW-Authenticate: Bearer header
\* and no service operation runs.
C11_AsStated ==
    [][(/\ GuardedRoute /\ req' # req
        /\ \/ req.authorization.scheme # "Bearer"
           \/ ~TokenAccepted(req.authorization.credentials, now))
       => Answered401]_vars

\* C11: every route except root/docs/token exchange reaches its handler only
\* with a bearer session token that verify accepts.  A request without a
\* Bearer Authorization header is answered 403 without WWW-Authenticate; a
\* Bearer token that verify rejects is answered 401 with WWW-Authenticate:
\* Bearer; in both cases no service operation runs.
C11_AuthGate ==
    [][(GuardedRoute /\ req' # req)
       => IF req.authorization.scheme # "Bearer"
          THEN /\ req'.stage = "done" /\ req'.status = 403
               /\ ~req'.www_authenticate /\ ~req'.handler
          ELSE IF ~TokenAccepted(req.authorization.credentials, now)
          THEN Answered401
          ELSE req'.stage = "route" \/ (req'.handler /\ req'.status = 200)]_vars

\* C11 witness: a request to a service route carrying an issued token whose
\* expiry has passed has been answered 401 with WWW-Authenticate, the handler
\* not run.
C11_Witness ==
    /\ req.stage = "done" /\ req.path = "/friends/list" /\ req.method = "GET"
    /\ req.status = 401 /\ req.www_authenticate /\ ~req.handler
    /\ req.authorization.scheme = "Bearer"
    /\ \E i \in issued : i.token = req.authorization.credentials
                         /\ i.token.uid # ""

\* C12: verify(token) succeeds only for a token signed with the server key
\* that carries a uid claim; a token issued at time t0 with TTL d (60 minutes
\* when none is given) and a uid is accepted at every time before t0+d and
\* rejected with 401 at every time after t0+d.
C12_AcceptedUntilExpiry ==
    [][(/\ req.stage = "middleware" /\ GuardedRoute /\ req' # req
        /\ req.authorization.scheme = "Bearer")
       => LET token == req.authorization.credentials
              accepted == req'.stage = "route"
              rejected == req'.stage = "done" /\ req'.status = 401
          IN /\ accepted => /\ token.format = "jwt"
                            /\ token.key = "JWT_SECRET_KEY"
                            /\ token.uid # ""
             /\ \A i \in issued :
                    (i.token = token /\ token.uid # "")
                    => LET d == IF i.expires_delta = None
                                THEN 60 * 60 * TicksPerSecond
                                ELSE i.expires_delta
                       IN /\ now < i.issued_at + d => accepted
                          /\ now > i.issued_at + d => rejected]_vars

\* ============================================================= profiles and game history
Players == {"a", "b"}
Usernames == {"ann", "bob"}
GameIds == {"g1"}
TaskSlots == 1..MaxTasks

\* rating: int = Field(default=1200)
DefaultRating == 1200

WHITE_WIN == "white_win"
BLACK_WIN == "black_win"
DRAW == "draw"
ABANDONED == "abandoned"
GameResults == {WHITE_WIN, BLACK_WIN, DRAW, ABANDONED}

\* UserProfile(uid=..., username=...): rating and counters take their defaults.
NewUserProfile(uid, username) ==
    [uid |-> uid, username |-> username, rating |-> DefaultRating,
     games_played |-> 0, wins |-> 0, losses |-> 0, draws |-> 0]

\* The rating changes the clients report with each result.
RatingChanges ==
    [r \in GameResults |->
        IF r = WHITE_WIN THEN [white |-> 8, black |-> -8]
        ELSE IF r = BLACK_WIN THEN [white |-> -8, black |-> 8]
        ELSE IF r = DRAW THEN [white |-> 4, black |-> -4]
        ELSE [white |-> 0, black |-> 0]]

\* GameHistory(game_id=..., white_player_id=..., ...)
NewGameHistory(game_id, white_player_id, black_player_id, result, end_time) ==
    [game_id |-> game_id, white_player_id |-> white_player_id,
     black_player_id |-> black_player_id, end_time |-> end_time,
     result |-> result, moves |-> 3,
     white_rating |-> DefaultRating, black_rating |-> DefaultRating,
     rating_change |-> RatingChanges[result]]

\* The bodies of POST /profiles/ and POST /history/games.
ProfileBodies == {NewUserProfile(u, n) : u \in Players, n \in Usernames}
GameBodies ==
    {NewGameHistory(g, w, b, r, 0) :
        g \in GameIds, w \in Players, b \in Players, r \in GameResults}

NoProfile == NewUserProfile("", "")
NoGame ==
    [game_id |-> "", white_player_id |-> "", black_player_id |-> "",
     end_time |-> 0, result |-> "", moves |-> 0, white_rating |-> 0,
     black_rating |-> 0, rating_change |-> [white |-> 0, black |-> 0]]

\* stats = {'total_games': 0, 'wins': 0, ...}: the average game length, a
\* quotient of durations, is left out.
EmptyStats ==
    [total_games |-> 0, wins |-> 0, losses |-> 0, draws |-> 0,
     white_games |-> 0, black_games |-> 0, rating_change |-> 0,
     total_moves |-> 0]

NoTask ==
    [op |-> "idle", pc |-> "idle", caller |-> "", profile |-> NoProfile,
     game |-> NoGame, game_id |-> "", white_current_rating |-> 0,
     white_new_rating |-> 0, black_new_rating |-> 0,
     result |-> "none", http |-> 0, returned |-> NoGame,
     user_id |-> "", start_date |-> 0, white_games |-> {},
     limit |-> 0, games |-> <<>>,
     stats |-> EmptyStats]

\* A new handler invocation takes the lowest idle slot.
TaskCanStart(c) ==
    /\ tasks[c].op = "idle"
    /\ \A d \in TaskSlots : d < c => tasks[d].op # "idle"
    /\ serial => \A d \in TaskSlots : tasks[d].op = "idle"

TaskDone(c, result, status_code) ==
    [tasks[c] EXCEPT !.pc = "done", !.result = result, !.http = status_code]

\* ------------------------------------------------------------- POST /profiles/
\* if existing_profile
ProfileExists(existing_profile) == existing_profile # NoProfile

\* await self.get_document(collection, uid): None when absent or on a store error.
GetProfile(uid, ok) ==
    IF ok /\ uid \in DOMAIN user_profiles THEN user_profiles[uid] ELSE NoProfile

\* create_profile: the handler starts; a body for another uid is refused.
CreateProfile(c, uid, profile) ==
    /\ TaskCanStart(c)
    /\ tasks' = [tasks EXCEPT ![c] =
            IF profile.uid # uid
            THEN [NoTask EXCEPT !.op = "create_profile", !.pc = "done",
                                !.caller = uid, !.profile = profile,
                                !.result = "raise", !.http = 403]
            ELSE [NoTask EXCEPT !.op = "create_profile", !.pc = "get_profile",
                                !.caller = uid, !.profile = profile]]
    /\ UNCHANGED <<user_profiles, game_history, outside_history>>

\* existing_profile = await profile_service.get_profile(profile.uid)
CreateGetProfile(c) ==
    /\ tasks[c].op = "create_profile" /\ tasks[c].pc = "get_profile"
    /\ \E ok \in BOOLEAN :
        tasks' = [tasks EXCEPT ![c] =
            IF ProfileExists(GetProfile(tasks[c].profile.uid, ok))
            THEN TaskDone(c, "raise", 409)
            ELSE [tasks[c] EXCEPT !.pc = "set_profile"]]
    /\ UNCHANGED <<user_profiles, game_history, outside_history>>

\* success = await profile_service.create_profile(profile)
CreateSetProfile(c) ==
    /\ tasks[c].op = "create_profile" /\ tasks[c].pc = "set_profile"
    /\ \E ok \in BOOLEAN :
        IF ok
        THEN /\ user_profiles' =
                    SetDoc(user_profiles, tasks[c].profile.uid, tasks[c].profile)
             /\ tasks' = [tasks EXCEPT ![c] = TaskDone(c, "true", 201)]
        ELSE /\ tasks' = [tasks EXCEPT ![c] = TaskDone(c, "raise", 500)]
             /\ UNCHANGED user_profiles
    /\ UNCHANGED <<game_history, outside_history>>

\* ------------------------------------------------------------- archive_game
\* A faulty update: the outcome counters are left alone.
UpdateRatingOnly(profiles, uid, new_rating, game_result) ==
    IF uid \notin DOMAIN profiles THEN profiles
    ELSE [profiles EXCEPT ![uid] =
            [@ EXCEPT !.rating = new_rating, !.games_played = @ + 1]]

\* update_rating: rating = new_rating, games_played and one of wins / losses /
\* draws incremented; updating a document that does not exist fails.
UpdateRating(profiles, uid, new_rating, game_result) ==
    IF uid \notin DOMAIN profiles THEN profiles
    ELSE [profiles EXCEPT ![uid] =
            [@ EXCEPT !.rating = new_rating,
                      !.games_played = @ + 1,
                      !.wins = IF game_result = "win" THEN @ + 1 ELSE @,
                      !.losses = IF game_result = "loss" THEN @ + 1 ELSE @,
                      !.draws = IF game_result \notin {"win", "loss"}
                                THEN @ + 1 ELSE @]]

\* 'win' if game.result == WHITE_WIN else 'loss' if game.result == BLACK_WIN
\* else 'draw'
WhiteResult(result) ==
    IF result = WHITE_WIN THEN "win"
    ELSE IF result = BLACK_WIN THEN "loss" ELSE "draw"

BlackResult(result) ==
    IF result = BLACK_WIN THEN "win"
    ELSE IF result = WHITE_WIN THEN "loss" ELSE "draw"

\* profile.rating if profile else the rating in the game record
CurrentRating(profile, game_rating) ==
    IF profile # NoProfile THEN profile.rating ELSE game_rating

\* POST /history/games: the handler starts; a caller who did not play is refused.
ArchiveGame(c, uid, game) ==
    /\ TaskCanStart(c)
    /\ \A u \in DOMAIN user_profiles :
            user_profiles[u].games_played < MaxGamesPlayed
    /\ tasks' = [tasks EXCEPT ![c] =
            IF uid \notin {game.white_player_id, game.black_player_id}
            THEN [NoTask EXCEPT !.op = "archive", !.pc = "done", !.caller = uid,
                                !.game = game, !.result = "raise", !.http = 403]
            ELSE [NoTask EXCEPT !.op = "archive", !.pc = "set_game",
                                !.caller = uid, !.game = game]]
    /\ UNCHANGED <<user_profiles, game_history, outside_history>>

\* success = await self.set_document(self.collection, game.game_id, ...)
ArchiveSetGame(c) ==
    /\ tasks[c].op = "archive" /\ tasks[c].pc = "set_game"
    /\ \E ok \in BOOLEAN :
        IF ok
        THEN /\ game_history' =
                    SetDoc(game_history, tasks[c].game.game_id, tasks[c].game)
             /\ tasks' = [tasks EXCEPT ![c].pc = "get_white"]
        ELSE /\ tasks' = [tasks EXCEPT ![c] = TaskDone(c, "false", 200)]
             /\ UNCHANGED game_history
    /\ UNCHANGED <<user_profiles, outside_history>>

\* white_profile = await profile_service.get_profile(game.white_player_id)
ArchiveGetWhite(c) ==
    /\ tasks[c].op = "archive" /\ tasks[c].pc = "get_white"
    /\ \E ok \in BOOLEAN :
        tasks' = [tasks EXCEPT ![c] =
            [tasks[c] EXCEPT !.pc = "get_black",
                !.white_current_rating =
                    CurrentRating(GetProfile(tasks[c].game.white_player_id, ok),
                                  tasks[c].game.white_rating)]]
    /\ UNCHANGED <<user_profiles, game_history, outside_history>>

\* black_profile = await profile_service.get_profile(game.black_player_id),
\* then both new ratings.
ArchiveGetBlack(c) ==
    /\ tasks[c].op = "archive" /\ tasks[c].pc = "get_black"
    /\ \E ok \in BOOLEAN :
        LET game == tasks[c].game
            black_current_rating ==
                CurrentRating(GetProfile(game.black_player_id, ok),
                              game.black_rating)
        IN tasks' = [tasks EXCEPT ![c] =
                [tasks[c] EXCEPT !.pc = "update_white",
                    !.white_new_rating =
                        tasks[c].white_current_rating + game.rating_change.white,
                    !.black_new_rating =
                        black_current_rating + game.rating_change.black]]
    /\ UNCHANGED <<user_profiles, game_history, outside_history>>

\* await profile_service.update_rating(game.white_player_id, ...): the
\* outcome of the update is not looked at.
ArchiveUpdateWhite(c) ==
    /\ tasks[c].op = "archive" /\ tasks[c].pc = "update_white"
    /\ \E ok \in BOOLEAN :
        user_profiles' =
            IF ok THEN UpdateRating(user_profiles, tasks[c].game.white_player_id,
                                    tasks[c].white_new_rating,
                                    WhiteResult(tasks[c].game.result))
            ELSE user_profiles
    /\ tasks' = [tasks EXCEPT ![c].pc = "update_black"]
    /\ UNCHANGED <<game_history, outside_history>>

\* await profile_service.update_rating(game.black_player_id, ...); return success
ArchiveUpdateBlack(c) ==
    /\ tasks[c].op = "archive" /\ tasks[c].pc = "update_black"
    /\ \E ok \in BOOLEAN :
        user_profiles' =
            IF ok THEN UpdateRating(user_profiles, tasks[c].game.black_player_id,
                                    tasks[c].black_new_rating,
                                    BlackResult(tasks[c].game.result))
            ELSE user_profiles
    /\ tasks' = [tasks EXCEPT ![c] = TaskDone(c, "true", 200)]
    /\ UNCHANGED <<game_history, outside_history>>

\* ------------------------------------------------------------- get_game
\* GET /history/games/{game_id}: the handler starts.
GetGame(c, game_id) ==
    /\ TaskCanStart(c)
    /\ tasks' = [tasks EXCEPT ![c] =
            [NoTask EXCEPT !.op = "get_game", !.pc = "get_document",
                           !.game_id = game_id]]
    /\ UNCHANGED <<user_profiles, game_history, outside_history>>

\* data = await self.get_document(self.collection, game_id); 404 when None.
GetGameDocument(c) ==
    /\ tasks[c].op = "get_game" /\ tasks[c].pc = "get_document"
    /\ \E ok \in BOOLEAN :
        tasks' = [tasks EXCEPT ![c] =
            IF ok /\ tasks[c].game_id \in DOMAIN game_history
            THEN [TaskDone(c, "true", 200) EXCEPT
                    !.returned = game_history[tasks[c].game_id]]
            ELSE TaskDone(c, "raise", 404)]
    /\ UNCHANGED <<user_profiles, game_history, outside_history>>

\* The response has been sent.
TaskReturn(c) ==
    /\ tasks[c].pc = "done"
    /\ tasks' = [tasks EXCEPT ![c] = NoTask]
    /\ UNCHANGED <<user_profiles, game_history, outside_history>>

InitHistory ==
    /\ user_profiles = <<>>
    /\ game_history = <<>>
    /\ tasks = [c \in TaskSlots |-> NoTask]
    /\ serial = TRUE
    /\ FriendsStart /\ AuthStart /\ AnalyticsStart

NextHistory ==
    \E c \in TaskSlots :
        \/ \E u \in Players, profile \in ProfileBodies : CreateProfile(c, u, profile)
        \/ CreateGetProfile(c)
        \/ CreateSetProfile(c)
        \/ \E u \in Players, game \in GameBodies : ArchiveGame(c, u, game)
        \/ ArchiveSetGame(c)
        \/ ArchiveGetWhite(c)
        \/ ArchiveGetBlack(c)
        \/ ArchiveUpdateWhite(c)
        \/ ArchiveUpdateBlack(c)
        \/ \E g \in GameIds : GetGame(c, g)
        \/ GetGameDocument(c)
        \/ TaskReturn(c)

\* Profile and history handlers, each running to completion before the next.
SpecHistory == InitHistory /\ [][NextHistory]_vars

\* ------------------------------------------------------------- get_user_stats
\* The documents a statistics run finds in 'game_history': any games of the
\* players, recent or old, and documents GameHistory(**data) does not accept.
StatsGameIds == {"g1", "g2"}
EndTimes == {0, 1}
DaysParams == {30}
Todays == {30, 31}
StatsDocuments(g) ==
    {NewGameHistory(g, w, b, r, t) :
        w \in Players, b \in Players, r \in GameResults, t \in EndTimes}
    \cup {[NewGameHistory(g, w, b, DRAW, t) EXCEPT !.result = "unknown"] :
            w \in Players, b \in Players, t \in EndTimes}
StatsCollections ==
    {coll \in [StatsGameIds -> UNION {StatsDocuments(g) : g \in StatsGameIds}
                                \cup {NoGame}] :
        \A g \in StatsGameIds : coll[g] = NoGame \/ coll[g].game_id = g}

\* The collection without the ids that hold no document.
Stored(coll) ==
    [g \in {x \in DOMAIN coll : coll[x] # NoGame} |-> coll[g]]

\* query_collection(collection, [(field, '==', user_id), ('end_time', '>=',
\* start_date)]): [] on a store error.
QueryGames(field, user_id, start_date, ok) ==
    IF ~ok THEN {}
    ELSE {game_history[g] : g \in
            {x \in DOMAIN game_history :
                /\ game_history[x][field] = user_id
                /\ game_history[x].end_time >= start_date}}

\* {game['game_id']: game for game in white_games + black_games}
MergeById(white_games, black_games) ==
    LET all == white_games \cup black_games
    IN {g \in all :
            g \in black_games
            \/ \A h \in black_games : h.game_id # g.game_id}

\* A faulty tally: the colours are counted one by one, so a game the user
\* played against themselves counts for both.
AddGameBothColours(stats, game, user_id) ==
    IF game.result \notin GameResults THEN stats
    ELSE LET is_white == game.white_player_id = user_id
             is_black == game.black_player_id = user_id
         IN [stats EXCEPT
                !.total_games = @ + 1,
                !.white_games = IF is_white THEN @ + 1 ELSE @,
                !.black_games = IF is_black THEN @ + 1 ELSE @,
                !.rating_change = @ + (IF is_white THEN game.rating_change.white
                                       ELSE game.rating_change.black),
                !.wins = IF \/ game.result = WHITE_WIN /\ is_white
                            \/ game.result = BLACK_WIN /\ ~is_white
                         THEN @ + 1 ELSE @,
                !.losses = IF \/ game.result = WHITE_WIN /\ ~is_white
                              \/ game.result = BLACK_WIN /\ is_white
                           THEN @ + 1 ELSE @,
                !.draws = IF game.result = DRAW THEN @ + 1 ELSE @,
                !.total_moves = @ + game.moves]

\* The body of the loop: a document GameHistory(**game_data) rejects is
\* skipped, the others are tallied.
AddGame(stats, game, user_id) ==
    IF game.result \notin GameResults THEN stats
    ELSE LET is_white == game.white_player_id = user_id
         IN [stats EXCEPT
                !.total_games = @ + 1,
                !.white_games = IF is_white THEN @ + 1 ELSE @,
                !.black_games = IF is_white THEN @ ELSE @ + 1,
                !.rating_change = @ + (IF is_white THEN game.rating_change.white
                                       ELSE game.rating_change.black),
                !.wins = IF \/ game.result = WHITE_WIN /\ is_white
                            \/ game.result = BLACK_WIN /\ ~is_white
                         THEN @ + 1 ELSE @,
                !.losses = IF \/ game.result = WHITE_WIN /\ ~is_white
                              \/ game.result = BLACK_WIN /\ is_white
                           THEN @ + 1 ELSE @,
                !.draws = IF game.result = DRAW THEN @ + 1 ELSE @,
                !.total_moves = @ + game.moves]

\* for game_data in all_user_games_data.values(): ...
RECURSIVE TallyGames(_, _, _)
TallyGames(games, user_id, stats) ==
    IF games = {} THEN stats
    ELSE LET game == CHOOSE g \in games : TRUE
         IN TallyGames(games \ {game}, user_id, AddGame(stats, game, user_id))

\* GET /history/users/{user_id}/stats at date 'today': start_date = now - days.
GetUserStats(c, user_id, days, today) ==
    /\ TaskCanStart(c)
    /\ tasks' = [tasks EXCEPT ![c] =
            [NoTask EXCEPT !.op = "stats", !.pc = "query_white",
                           !.user_id = user_id, !.start_date = today - days]]
    /\ UNCHANGED <<user_profiles, game_history, outside_history>>

\* white_games = await self.query_collection(..., filters_white)
StatsQueryWhite(c) ==
    /\ tasks[c].op = "stats" /\ tasks[c].pc = "query_white"
    /\ \E ok \in BOOLEAN :
        tasks' = [tasks EXCEPT ![c] =
            [tasks[c] EXCEPT !.pc = "query_black",
                !.white_games = QueryGames("white_player_id", tasks[c].user_id,
                                           tasks[c].start_date, ok)]]
    /\ UNCHANGED <<user_profiles, game_history, outside_history>>

\* black_games = await self.query_collection(..., filters_black), then the
\* merge and the tally.
StatsQueryBlack(c) ==
    /\ tasks[c].op = "stats" /\ tasks[c].pc = "query_black"
    /\ \E ok \in BOOLEAN :
        LET black_games == QueryGames("black_player_id", tasks[c].user_id,
                                      tasks[c].start_date, ok)
            all_user_games == MergeById(tasks[c].white_games, black_games)
        IN tasks' = [tasks EXCEPT ![c] =
                [TaskDone(c, "true", 200) EXCEPT
                    !.stats = TallyGames(all_user_games, tasks[c].user_id,
                                         EmptyStats)]]
    /\ UNCHANGED <<user_profiles, game_history, outside_history>>

InitStats ==
    /\ user_profiles = <<>>
    /\ \E coll \in StatsCollections : game_history = Stored(coll)
    /\ tasks = [c \in TaskSlots |-> NoTask]
    /\ serial = TRUE
    /\ FriendsStart /\ AuthStart /\ AnalyticsStart

NextStats ==
    \E c \in TaskSlots :
        \/ \E u \in Players, days \in DaysParams, today \in Todays :
                GetUserStats(c, u, days, today)
        \/ StatsQueryWhite(c)
        \/ StatsQueryBlack(c)
        \/ TaskReturn(c)

\* Statistics runs over a collection that holds any documents.
SpecStats == InitStats /\ [][NextStats]_vars

\* ------------------------------------------------------------- claims
\* C13: a profile once created is never overwritten by POST /profiles/,
\* whatever the sequence of calls and also when a store read fails: no step of
\* a create_profile handler changes a profile that is in the store.
C13_ProfileNeverOverwritten ==
    [][\A c \in TaskSlots :
        tasks[c].op = "create_profile"
        => \A u \in DOMAIN user_profiles :
                /\ u \in DOMAIN user_profiles'
                /\ user_profiles'[u] = user_profiles[u]]_vars

\* The profile after one game with the given outcome and rating change.
AfterGame(profile, change, outcome) ==
    [profile EXCEPT !.rating = profile.rating + change,
                    !.games_played = profile.games_played + 1,
                    !.wins = IF outcome = "win" THEN profile.wins + 1
                             ELSE profile.wins,
                    !.losses = IF outcome = "loss" THEN profile.losses + 1
                               ELSE profile.losses,
                    !.draws = IF outcome = "draw" THEN profile.draws + 1
                              ELSE profile.draws]

\* C14: after archiveGame(g) succeeds for a game whose two players both have
\* profiles, white's rating is its rating before plus rating_change.white,
\* black's its rating before plus rating_change.black, games_played of each
\* is one more, and wins / losses / draws moved by the result.  The game is
\* archived when the handler reaches the two rating updates; each of them
\* leaves the player's profile as the profile before, one game later.
C14_RatingsApplied ==
    [][\A c \in TaskSlots :
        LET game == tasks[c].game
            white == game.white_player_id
            black == game.black_player_id
        IN (/\ tasks[c].op = "archive" /\ tasks'[c].op = "archive"
            /\ white # black
            /\ {white, black} \subseteq DOMAIN user_profiles)
           => /\ (tasks[c].pc = "update_white" /\ tasks'[c].pc = "update_black")
                 => user_profiles'[white] =
                        AfterGame(user_profiles[white], game.rating_change.white,
                                  IF game.result = "white_win" THEN "win"
                                  ELSE IF game.result = "black_win" THEN "loss"
                                  ELSE "draw")
              /\ (tasks[c].pc = "update_black" /\ tasks'[c].pc = "done")
                 => user_profiles'[black] =
                        AfterGame(user_profiles[black], game.rating_change.black,
                                  IF game.result = "black_win" THEN "win"
                                  ELSE IF game.result = "white_win" THEN "loss"
                                  ELSE "draw")]_vars

\* C15: once archiveGame has stored a GameHistory for a game_id, no later
\* operation changes it, further archiveGame calls with the same game_id
\* included.
C15_ArchivedGameImmutable ==
    [][\A g \in DOMAIN game_history :
        g \in DOMAIN game_history' /\ game_history'[g] = game_history[g]]_vars

\* C16: the statistics getUserStats(uid, days) returns satisfy
\* wins + losses + draws <= total_games and
\* white_games + black_games = total_games.
C16_StatsConsistent ==
    \A c \in TaskSlots :
        (tasks[c].op = "stats" /\ tasks[c].pc = "done")
        => /\ tasks[c].stats.wins + tasks[c].stats.losses + tasks[c].stats.draws
                <= tasks[c].stats.total_games
           /\ tasks[c].stats.white_games + tasks[c].stats.black_games
                = tasks[c].stats.total_games

\* C16 witness: statistics over two games of the user, one as white and one
\* as black, one of them abandoned, so that the tallies of results stay below
\* the total.
C16_Witness ==
    \E c \in TaskSlots :
        /\ tasks[c].op = "stats" /\ tasks[c].pc = "done"
        /\ tasks[c].stats.total_games = 2
        /\ tasks[c].stats.white_games = 1 /\ tasks[c].stats.black_games = 1
        /\ tasks[c].stats.wins + tasks[c].stats.losses + tasks[c].stats.draws = 1

\* ------------------------------------------------------------------------
\* Analytics: record_game_analytics, get_daily_stats, get_global_stats
\* ------------------------------------------------------------------------
\* The analytics routes run one handler at a time here; every await on the
\* store is a step of its own, and the store may fail it: BaseService turns a
\* failed read into None, a failed query into [] and a failed write into
\* False.  Times are clock ticks (now); a date is a tick count as well.

DayTicks == 24 * HourTicks
CacheSeconds == 3600

AnalyticsGameIds == {"g1", "g2"}
AnalyticsCallers == {"a", "c"}
AnalyticsResults == {WHITE_WIN, ABANDONED}
\* The {date} path parameter: a datetime, with or without a time of day.
Dates == {0, HourTicks, DayTicks}

\* The body of POST /analytics/games/{game_id}.
GameAnalyticsCreate(game_id, result) ==
    [game_id |-> game_id, white_player_id |-> "a", black_player_id |-> "b",
     start_time |-> 0, end_time |-> 60 * TicksPerSecond,
     result |-> result, moves |-> <<"e4", "e5">>,
     rating_change |-> RatingChanges[result],
     game_type |-> "portal_gambit",
     time_control |-> [initial |-> 600, increment |-> 5]]

\* (end_time - start_time).total_seconds()
TotalSeconds(ticks) == ticks \div TicksPerSecond

\* The document record_game_analytics builds, stamped with utcnow().
AnalyticsDocument(game_data, t) ==
    [timestamp |-> t,
     game_id |-> game_data.game_id,
     duration |-> TotalSeconds(game_data.end_time - game_data.start_time),
     total_moves |-> Len(game_data.moves),
     result |-> game_data.result,
     white_player_id |-> game_data.white_player_id,
     black_player_id |-> game_data.black_player_id,
     rating_change |-> game_data.rating_change,
     game_type |-> game_data.game_type,
     time_control |-> game_data.time_control]

AnalyticsId(game_id) == "game_" \o game_id

\* date.strftime('%Y-%m-%d'): the day of the date, its time of day dropped.
DateString(date) == ToString(date \div DayTicks)
DailyCacheKey(date) == "daily_stats_" \o DateString(date)
GlobalCacheKey == "global_stats"

\* datetime.combine(date, datetime.min.time())
Midnight(date) == (date \div DayTicks) * DayTicks

\* f"{initial}/{increment}"
TimeControlKey(game) ==
    ToString(game.time_control.initial) \o "/"
        \o ToString(game.time_control.increment)

RECURSIVE SumField(_, _)
SumField(games, field) ==
    IF games = {} THEN 0
    ELSE LET g == CHOOSE x \in games : TRUE
         IN g[field] + SumField(games \ {g}, field)

\* stats['game_types'][game_type] = stats['game_types'].get(game_type, 0) + 1
GameTypes(games) ==
    [k \in {g.game_type : g \in games} |->
        Cardinality({g \in games : g.game_type = k})]

\* the same count by time-control key
TimeControls(games) ==
    [k \in {TimeControlKey(g) : g \in games} |->
        Cardinality({g \in games : TimeControlKey(g) = k})]

\* The games of the day of date, on a query that did or did not succeed.
DailyGames(date, ok) ==
    IF ok
    THEN {analytics[k] : k \in {x \in DOMAIN analytics :
              /\ analytics[x].timestamp >= Midnight(date)
              /\ analytics[x].timestamp < Midnight(date) + DayTicks}}
    ELSE {}

\* The aggregate get_daily_stats computes; an average is the whole quotient.
DailyStats(games) ==
    LET total_games == Cardinality(games)
    IN [total_games |-> total_games,
        average_duration |->
            IF total_games > 0 THEN SumField(games, "duration") \div total_games
            ELSE 0,
        average_moves |->
            IF total_games > 0
            THEN SumField(games, "total_moves") \div total_games
            ELSE 0,
        white_wins |-> Cardinality({g \in games : g.result = WHITE_WIN}),
        black_wins |-> Cardinality({g \in games : g.result = BLACK_WIN}),
        draws |-> Cardinality({g \in games : g.result = DRAW}),
        abandoned |-> Cardinality({g \in games :
                          g.result \notin {WHITE_WIN, BLACK_WIN, DRAW}}),
        game_types |-> GameTypes(games),
        time_controls |-> TimeControls(games)]

\* sorted(items, key=count, reverse=True)[:5]
Top5(hist) ==
    IF Cardinality(DOMAIN hist) <= 5 THEN hist
    ELSE LET keep == CHOOSE K \in SUBSET DOMAIN hist :
                        /\ Cardinality(K) = 5
                        /\ \A k \in K : \A o \in DOMAIN hist \ K :
                               hist[o] <= hist[k]
         IN [k \in keep |-> hist[k]]

\* The records get_global_stats samples, on a query that did or did not
\* succeed.
GlobalResults(ok) == IF ok THEN {analytics[k] : k \in DOMAIN analytics} ELSE {}

\* The aggregate get_global_stats computes at time t; a rate is in percent.
GlobalStats(results, t) ==
    LET total_games == Cardinality(results)
    IN IF results = {}
       THEN [total_games |-> 0, white_win_rate |-> 0,
             average_game_duration |-> 0, average_moves_per_game |-> 0,
             popular_time_controls |-> <<>>, popular_game_types |-> <<>>,
             last_updated |-> t]
       ELSE [total_games |-> total_games,
             white_win_rate |->
                 (100 * Cardinality({g \in results : g.result = WHITE_WIN}))
                     \div total_games,
             average_game_duration |->
                 SumField(results, "duration") \div total_games,
             average_moves_per_game |->
                 SumField(results, "total_moves") \div total_games,
             popular_time_controls |-> Top5(TimeControls(results)),
             popular_game_types |-> Top5(GameTypes(results)),
             last_updated |-> t]

\* (datetime.utcnow() - cached_stats['last_updated']).total_seconds() < 3600
CacheFresh(cached_stats, t) ==
    t - cached_stats.last_updated < CacheSeconds * TicksPerSecond

JobCanStart == job.pc = "idle" /\ served < MaxJobs

JobDone(http) == job' = [job EXCEPT !.pc = "done", !.http = http]

\* POST /analytics/games/{game_id}: a caller who did not play gets 403; the
\* document is built before the write is awaited.
RecordGameAnalytics(caller, game_id, result) ==
    LET game_data == GameAnalyticsCreate(game_id, result)
    IN /\ JobCanStart
       /\ IF caller \notin {game_data.white_player_id, game_data.black_player_id}
          THEN job' = [NoJob EXCEPT !.op = "record", !.pc = "done", !.http = 403]
          ELSE job' = [NoJob EXCEPT !.op = "record", !.pc = "set",
                                    !.analytics_id = AnalyticsId(game_id),
                                    !.result = result, !.date = now]
       /\ UNCHANGED <<now, analytics, analytics_cache, served, outside_analytics>>

\* await self.set_document(self.collection, analytics_id, analytics)
RecordSetDocument ==
    /\ job.op = "record" /\ job.pc = "set"
    /\ \E ok \in BOOLEAN :
        /\ analytics' =
             IF ok
             THEN SetDoc(analytics, job.analytics_id,
                      AnalyticsDocument(
                          GameAnalyticsCreate(
                              CHOOSE g \in AnalyticsGameIds :
                                  AnalyticsId(g) = job.analytics_id,
                              job.result),
                          job.date))
             ELSE analytics
        /\ JobDone(IF ok THEN 200 ELSE 500)
    /\ UNCHANGED <<now, analytics_cache, served, outside_analytics>>

\* What get_document hands back: the document, or None when there is none or
\* the read failed.
GetCached(cache_key, ok) ==
    IF ok /\ cache_key \in DOMAIN analytics_cache
    THEN analytics_cache[cache_key]
    ELSE NoStats

\* GET /analytics/daily/{date}, up to the first await.
GetDailyStats(date) ==
    /\ JobCanStart
    /\ job' = [NoJob EXCEPT !.op = "daily", !.pc = "get_cache",
                            !.key = DailyCacheKey(date), !.date = date]
    /\ UNCHANGED <<now, analytics, analytics_cache, served, outside_analytics>>

\* cached_stats = await self.get_document(...); if cached_stats: return it
DailyGetCache ==
    /\ job.op = "daily" /\ job.pc = "get_cache"
    /\ \E ok \in BOOLEAN :
        LET cached_stats == GetCached(job.key, ok)
        IN IF cached_stats # NoStats
           THEN job' = [job EXCEPT !.pc = "done", !.stats = cached_stats,
                                   !.http = 200]
           ELSE job' = [job EXCEPT !.pc = "query"]
    /\ UNCHANGED <<now, analytics, analytics_cache, served, outside_analytics>>

\* games = await self.query_collection(...), and the tally that follows
DailyQuery ==
    /\ job.op = "daily" /\ job.pc = "query"
    /\ \E ok \in BOOLEAN :
        job' = [job EXCEPT !.pc = "set_cache",
                           !.stats = DailyStats(DailyGames(job.date, ok))]
    /\ UNCHANGED <<now, analytics, analytics_cache, served, outside_analytics>>

\* await self.set_document(self.cache_collection, cache_key, stats), its
\* result dropped; return stats
DailySetCache ==
    /\ job.op = "daily" /\ job.pc = "set_cache"
    /\ \E ok \in BOOLEAN :
        analytics_cache' =
            IF ok THEN SetDoc(analytics_cache, job.key, job.stats)
            ELSE analytics_cache
    /\ JobDone(200)
    /\ UNCHANGED <<now, analytics, served, outside_analytics>>

\* GET /analytics/global, up to the first await.
GetGlobalStats ==
    /\ JobCanStart
    /\ job' = [NoJob EXCEPT !.op = "global", !.pc = "get_cache",
                            !.key = GlobalCacheKey]
    /\ UNCHANGED <<now, analytics, analytics_cache, served, outside_analytics>>

\* The cached document is returned when it is there and fresh.  utcnow() is a
\* naive datetime: when the store hands last_updated back as an aware one
\* the subtraction raises TypeError, which the route answers with 500.
GlobalGetCache ==
    /\ job.op = "global" /\ job.pc = "get_cache"
    /\ \E ok \in BOOLEAN, aware \in BOOLEAN :
        LET cached_stats == GetCached(job.key, ok)
        IN IF cached_stats = NoStats
           THEN job' = [job EXCEPT !.pc = "query"]
           ELSE IF aware
           THEN job' = [job EXCEPT !.pc = "done", !.http = 500]
           ELSE IF CacheFresh(cached_stats, now)
           THEN job' = [job EXCEPT !.pc = "done", !.stats = cached_stats,
                                   !.http = 200]
           ELSE job' = [job EXCEPT !.pc = "query"]
    /\ UNCHANGED <<now, analytics, analytics_cache, served, outside_analytics>>

\* results = await self.query_collection(...); stats is stamped with
\* utcnow(); with no results it is returned at once, and not cached.
GlobalQuery ==
    /\ job.op = "global" /\ job.pc = "query"
    /\ \E ok \in BOOLEAN :
        LET results == GlobalResults(ok)
            stats == GlobalStats(results, now)
        IN IF results = {}
           THEN job' = [job EXCEPT !.pc = "done", !.stats = stats,
                                   !.http = 200]
           ELSE job' = [job EXCEPT !.pc = "set_cache", !.stats = stats]
    /\ UNCHANGED <<now, analytics, analytics_cache, served, outside_analytics>>

\* await self.set_document(self.cache_collection, cache_key, stats), its
\* result dropped; return stats
GlobalSetCache ==
    /\ job.op = "global" /\ job.pc = "set_cache"
    /\ \E ok \in BOOLEAN :
        analytics_cache' =
            IF ok THEN SetDoc(analytics_cache, job.key, job.stats)
            ELSE analytics_cache
    /\ JobDone(200)
    /\ UNCHANGED <<now, analytics, served, outside_analytics>>

\* The response is sent.
JobReturn ==
    /\ job.pc = "done"
    /\ job' = NoJob
    /\ served' = served + 1
    /\ UNCHANGED <<now, analytics, analytics_cache, outside_analytics>>

InitAnalytics ==
    /\ AnalyticsStart
    /\ FriendsStart /\ serial = TRUE /\ AuthStart /\ HistoryStart

NextAnalytics ==
    \/ \E caller \in AnalyticsCallers, game_id \in AnalyticsGameIds,
          result \in AnalyticsResults :
           RecordGameAnalytics(caller, game_id, result)
    \/ RecordSetDocument
    \/ \E date \in Dates : GetDailyStats(date)
    \/ DailyGetCache
    \/ DailyQuery
    \/ DailySetCache
    \/ GetGlobalStats
    \/ GlobalGetCache
    \/ GlobalQuery
    \/ GlobalSetCache
    \/ JobReturn
    \/ Tick
    \/ AdvanceHour

SpecAnalytics == InitAnalytics /\ [][NextAnalytics]_vars

\* ------------------------------------------------------------------------
\* Analytics claims
\* ------------------------------------------------------------------------

\* C17: once the stats of a date are in the cache, a getDailyStats call for
\* that date does not query the analytics records: it returns exactly the
\* cached document and leaves the cache as it is, whatever was recorded in
\* between.
C17_DailyCacheNeverRecomputed ==
    [][(job.op = "daily" /\ job' # job /\ job.key \in DOMAIN analytics_cache)
        => /\ job'.pc # "query"
           /\ job'.pc = "done" =>
                /\ job'.stats = analytics_cache[job.key]
                /\ analytics_cache' = analytics_cache]_vars

\* C18: a getGlobalStats call that finds a cached document less than one
\* hour old returns it unchanged; a call that finds none, or one an hour old
\* or older, recomputes, and when it returns the cache holds what it
\* returned, so that the next call within the hour is served from the cache.
C18_GlobalCacheHourly ==
    [][(job.op = "global" /\ job'.op = "global" /\ job' # job)
        => LET cached == GlobalCacheKey \in DOMAIN analytics_cache
               fresh == /\ cached
                        /\ now - analytics_cache[GlobalCacheKey].last_updated
                               < 3600 * TicksPerSecond
           IN /\ (job.pc = "get_cache" /\ fresh)
                  => /\ job'.pc = "done" /\ job'.http = 200
                     /\ job'.stats = analytics_cache[GlobalCacheKey]
              /\ (job.pc = "get_cache" /\ ~fresh) => job'.pc = "query"
              /\ (job.pc \in {"query", "set_cache"} /\ job'.pc = "done")
                  => /\ GlobalCacheKey \in DOMAIN analytics_cache'
                     /\ analytics_cache'[GlobalCacheKey] = job'.stats]_vars

\* ------------------------------------------------------------------------
\* Friend claims: answering requests and interactions
\* ------------------------------------------------------------------------

\* The respond_to_request call in slot c takes a step.
RespondStep(c) ==
    /\ calls[c].op = "respond" /\ calls[c].invoked
    /\ calls'[c] # calls[c]

\* The respond_to_request call in slot c returns with this step.
RespondReturns(c) ==
    /\ RespondStep(c)
    /\ calls[c].pc # "done" /\ calls'[c].pc = "done"

\* C21: respond_to_request returns true only if it found the request pending,
\* the status update was applied and, on an accept, both FriendStatus
\* documents were written; a call that finds the request missing or not
\* pending returns false and changes no document.
C21_RespondTrueOnlyIfAllSteps ==
    [][\A c \in Slots :
        /\ (RespondReturns(c) /\ calls'[c].result = "true")
            => /\ calls[c].pc \in {"update_status", "set_status2"}
               /\ calls[c].request_id \in DOMAIN friend_requests'
               /\ friend_requests'[calls[c].request_id].status =
                    (IF calls[c].accept THEN "accepted" ELSE "rejected")
               /\ calls[c].accept =>
                    /\ calls[c].set1_success
                    /\ calls[c].sender_id \o "_" \o calls[c].receiver_id
                            \in DOMAIN friend_status'
                    /\ calls[c].receiver_id \o "_" \o calls[c].sender_id
                            \in DOMAIN friend_status'
                    /\ friend_status'[calls[c].receiver_id \o "_"
                                          \o calls[c].sender_id]
                            = calls[c].friend_status2
        /\ (RespondStep(c) /\ calls[c].pc = "get_request"
              /\ (\/ calls[c].request_id \notin DOMAIN friend_requests
                  \/ friend_requests[calls[c].request_id].status # "pending"))
            => /\ calls'[c].pc = "done" /\ calls'[c].result = "false"
               /\ friend_requests' = friend_requests
               /\ friend_status' = friend_status]_vars

\* An accept has returned true and both FriendStatus documents are stored.
C21_Witness ==
    \E c \in Slots :
        /\ calls[c].op = "respond" /\ calls[c].pc = "done"
        /\ calls[c].accept /\ calls[c].result = "true"
        /\ calls[c].sender_id \o "_" \o calls[c].receiver_id
                \in DOMAIN friend_status
        /\ calls[c].receiver_id \o "_" \o calls[c].sender_id
                \in DOMAIN friend_status
        /\ calls[c].sender_id # calls[c].receiver_id

\* C22: the two FriendStatus documents that one successful accept has
\* written carry the same became_friends timestamp.
C22_SameBecameFriends ==
    [][\A c \in Slots :
        (RespondReturns(c) /\ calls[c].accept /\ calls'[c].result = "true")
            => friend_status'[calls[c].sender_id \o "_" \o calls[c].receiver_id]
                    .became_friends
               = friend_status'[calls[c].receiver_id \o "_" \o calls[c].sender_id]
                    .became_friends]_vars

\* The stored FriendStatus documents owned by u about v.
StatusOf(u, v) ==
    {k \in DOMAIN friend_status :
        friend_status[k].user_id = u /\ friend_status[k].friend_id = v}

\* C26: update_last_interaction(A, B, game_id) changes the FriendStatus(A, B)
\* document and nothing else: games_played grows by one, last_interaction is
\* set, last_game is set only when a game id is given; without a
\* FriendStatus(A, B) document the call returns false and no document is
\* created or changed.
C26_InteractionTouchesOwnDocument ==
    [][\A c \in Slots :
        (/\ calls[c].op = "interaction"
         /\ calls[c].pc = "update_status" /\ calls'[c].pc = "done")
        => LET A == calls[c].sender_id
               B == calls[c].receiver_id
           IN /\ friend_requests' = friend_requests
              /\ DOMAIN friend_status' = DOMAIN friend_status
              /\ StatusOf(A, B) = {}
                    => /\ calls'[c].result = "false"
                       /\ friend_status' = friend_status
              /\ \A k \in DOMAIN friend_status :
                    \/ friend_status'[k] = friend_status[k]
                    \/ /\ k \in StatusOf(A, B)
                       /\ calls'[c].result = "true"
                       /\ friend_status'[k].games_played =
                            friend_status[k].games_played + 1
                       /\ friend_status'[k].last_interaction =
                            calls[c].last_interaction
                       /\ friend_status'[k].last_game =
                            (IF calls[c].game_id # ""
                             THEN calls[c].game_id
                             ELSE friend_status[k].last_game)
                       /\ friend_status'[k].became_friends =
                            friend_status[k].became_friends]_vars

\* C29: an accept that fails at a FriendStatus write after its status update
\* leaves the request accepted and keeps what it has written; a request that
\* is accepted stays accepted, no respond_to_request on it returns true and
\* none writes a FriendStatus document, so the missing document is never
\* created by a retry.
C29_FailedAcceptIsNotRepaired ==
    [][\A c \in Slots :
        /\ (RespondReturns(c) /\ calls[c].pc = "set_status2"
              /\ calls'[c].result = "false")
            => /\ friend_requests'[calls[c].request_id].status = "accepted"
               /\ \A k \in DOMAIN friend_status :
                    k \in DOMAIN friend_status'
        /\ \A r \in DOMAIN friend_requests :
            friend_requests[r].status = "accepted"
            => /\ friend_requests'[r].status = "accepted"
               /\ (RespondStep(c) /\ calls[c].request_id = r
                     /\ calls[c].pc = "get_request")
                    => /\ calls'[c].pc = "done"
                       /\ calls'[c].result = "false"
                       /\ friend_status' = friend_status]_vars

\* An accept has failed at a FriendStatus write, a later respond_to_request
\* on the same request has returned false, and one mirrored document is
\* still missing.
C29_Witness ==
    \E c \in Slots :
        /\ calls[c].op = "respond" /\ calls[c].pc = "done"
        /\ calls[c].invoked /\ calls[c].result = "false"
        /\ calls[c].request_id \in DOMAIN friend_requests
        /\ LET request == friend_requests[calls[c].request_id]
           IN /\ request.status = "accepted"
              /\ calls[c].sender_id = ""
              /\ request.sender_id \o "_" \o request.receiver_id
                    \in DOMAIN friend_status
              /\ request.receiver_id \o "_" \o request.sender_id
                    \notin DOMAIN friend_status

\* Some request between u and v, in either direction, is accepted in reqs.
AcceptedBetween(reqs, u, v) ==
    \E r \in DOMAIN reqs :
        /\ reqs[r].status = "accepted"
        /\ \/ reqs[r].sender_id = u /\ reqs[r].receiver_id = v
           \/ reqs[r].sender_id = v /\ reqs[r].receiver_id = u

\* C30: a FriendStatus document exists only between users with an accepted
\* request; only the two writes of an accepting respond_to_request create
\* one, while sending, rejecting, removing and update_last_interaction
\* create none.
C30_StatusOnlyFromAccept ==
    [][/\ \A k \in DOMAIN friend_status' :
            AcceptedBetween(friend_requests', friend_status'[k].user_id,
                            friend_status'[k].friend_id)
       /\ \A k \in DOMAIN friend_status' \ DOMAIN friend_status :
            \E c \in Slots :
                /\ calls[c].op = "respond" /\ calls[c].accept
                /\ calls[c].pc \in {"set_status1", "set_status2"}
                /\ calls'[c] # calls[c]]_vars

\* A FriendStatus document is stored, and an update_last_interaction for a
\* pair without one has returned false and created none.
C30_Witness ==
    /\ DOMAIN friend_status # {}
    /\ \E c \in Slots :
        /\ calls[c].op = "interaction" /\ calls[c].pc = "done"
        /\ calls[c].result = "false"
        /\ calls[c].sender_id \o "_" \o calls[c].receiver_id
                \notin DOMAIN friend_status

\* ------------------------------------------------------------------------
\* Profile and history claims, continued
\* ------------------------------------------------------------------------

\* The archive_game call in slot c applies an update_rating with this step.
RatingUpdated(c) ==
    /\ tasks[c].op = "archive"
    /\ tasks[c].pc \in {"update_white", "update_black"}
    /\ tasks'[c].pc # tasks[c].pc
    /\ user_profiles' # user_profiles

\* C23: an update_rating that is applied sets the rating to the new rating,
\* adds one to games_played and adds one to exactly one of wins, losses and
\* draws, leaving the other two; so games_played = wins + losses + draws holds
\* for every stored profile, whatever the results of the games, abandoned
\* included.
C23_CountersAddUp ==
    [][/\ \A c \in TaskSlots :
            RatingUpdated(c)
            => LET uid == IF tasks[c].pc = "update_white"
                          THEN tasks[c].game.white_player_id
                          ELSE tasks[c].game.black_player_id
                   new_rating == IF tasks[c].pc = "update_white"
                                 THEN tasks[c].white_new_rating
                                 ELSE tasks[c].black_new_rating
                   old == user_profiles[uid]
                   new == user_profiles'[uid]
               IN /\ \A u \in DOMAIN user_profiles \ {uid} :
                        user_profiles'[u] = user_profiles[u]
                  /\ new.rating = new_rating
                  /\ new.games_played = old.games_played + 1
                  /\ <<new.wins - old.wins, new.losses - old.losses,
                       new.draws - old.draws>>
                        \in {<<1, 0, 0>>, <<0, 1, 0>>, <<0, 0, 1>>}
       /\ \A u \in DOMAIN user_profiles' :
            user_profiles'[u].games_played =
                user_profiles'[u].wins + user_profiles'[u].losses
                    + user_profiles'[u].draws]_vars

\* An abandoned game has been archived and counted on a player's profile.
C23_Witness ==
    \E g \in DOMAIN game_history, u \in DOMAIN user_profiles :
        /\ game_history[g].result = "abandoned"
        /\ u \in {game_history[g].white_player_id, game_history[g].black_player_id}
        /\ user_profiles[u].games_played >= 1
        /\ user_profiles[u].games_played =
            user_profiles[u].wins + user_profiles[u].losses + user_profiles[u].draws

\* C24: archive_game returns the success of the GameHistory write: when the
\* write fails it returns false with no game stored and no profile changed;
\* when it succeeds the game is stored and the call returns true after the
\* two rating updates, whether they were applied or not, with the game still
\* stored.
C24_ArchiveReturnsWriteSuccess ==
    [][\A c \in TaskSlots :
        (tasks[c].op = "archive" /\ tasks'[c].pc # tasks[c].pc
            /\ tasks[c].pc # "done")
        => LET game == tasks[c].game
           IN /\ tasks[c].pc = "set_game"
                    => \/ /\ tasks'[c].pc = "done"
                          /\ tasks'[c].result = "false"
                          /\ game_history' = game_history
                          /\ user_profiles' = user_profiles
                       \/ /\ tasks'[c].pc = "get_white"
                          /\ game.game_id \in DOMAIN game_history'
                          /\ game_history'[game.game_id] = game
                          /\ user_profiles' = user_profiles
              /\ (tasks[c].pc # "set_game" /\ tasks'[c].pc = "done")
                    => /\ tasks[c].pc = "update_black"
                       /\ tasks'[c].result = "true"
              /\ tasks[c].pc # "set_game"
                    => /\ game_history' = game_history
                       /\ game.game_id \in DOMAIN game_history
                       /\ game_history[game.game_id] = game]_vars

\* An archive_game has returned true although the white player's rating
\* update was not applied; the game is stored.
C24_Witness ==
    \E c \in TaskSlots :
        /\ tasks[c].op = "archive" /\ tasks[c].pc = "done"
        /\ tasks[c].result = "true"
        /\ tasks[c].game.game_id \in DOMAIN game_history
        /\ tasks[c].game.white_player_id \in DOMAIN user_profiles
        /\ user_profiles[tasks[c].game.white_player_id].games_played = 0

\* ------------------------------------------------------------------------
\* get_user_games
\* ------------------------------------------------------------------------
\* The archived games a listing finds: any valid games of the players.
ListedGameIds == {"g1", "g2", "g3"}
Limits == 1..MaxLimit
ListedCollections ==
    {coll \in [ListedGameIds ->
                {NewGameHistory(g, w, b, WHITE_WIN, t) :
                    g \in ListedGameIds, w \in Players, b \in Players,
                    t \in EndTimes} \cup {NoGame}] :
        \A g \in ListedGameIds : coll[g] = NoGame \/ coll[g].game_id = g}

\* The store's answer to order_by('end_time', DESCENDING): the later game
\* first, games of one end_time in an order of the store's own.
RECURSIVE Descending(_)
Descending(games) ==
    IF games = {} THEN <<>>
    ELSE LET g == CHOOSE x \in games : \A h \in games : h.end_time <= x.end_time
         IN <<g>> \o Descending(games \ {g})

\* seq[:limit]
Take(seq, limit) ==
    SubSeq(seq, 1, IF Len(seq) < limit THEN Len(seq) ELSE limit)

\* query_collection(collection, [(field, '==', user_id)], order_by=('end_time',
\* 'DESCENDING'), limit=limit): [] on a store error.
QueryUserGames(field, user_id, limit, ok) ==
    IF ~ok THEN <<>>
    ELSE Take(Descending({game_history[g] : g \in
                {x \in DOMAIN game_history : game_history[x][field] = user_id}}),
              limit)

\* {game['game_id']: game for game in white + black}.values(): one entry per
\* game_id, at the place of its first occurrence, with its last value.
RECURSIVE DictValues(_)
DictValues(seq) ==
    IF seq = <<>> THEN <<>>
    ELSE LET n == Len(seq)
             front == DictValues(SubSeq(seq, 1, n - 1))
             last == seq[n]
         IN IF \E i \in 1..Len(front) : front[i].game_id = last.game_id
            THEN [i \in 1..Len(front) |->
                    IF front[i].game_id = last.game_id THEN last ELSE front[i]]
            ELSE Append(front, last)

\* sorted(values, key=end_time, reverse=True): stable, by insertion.
RECURSIVE SortedByEndTime(_)
SortedByEndTime(seq) ==
    IF seq = <<>> THEN <<>>
    ELSE LET n == Len(seq)
             front == SortedByEndTime(SubSeq(seq, 1, n - 1))
             last == seq[n]
             before == Cardinality({i \in 1..Len(front) :
                            front[i].end_time >= last.end_time})
         IN SubSeq(front, 1, before) \o <<last>>
                \o SubSeq(front, before + 1, Len(front))

\* GET /history/users/{user_id}/games?limit=: the handler starts.
GetUserGames(c, user_id, limit) ==
    /\ TaskCanStart(c)
    /\ tasks' = [tasks EXCEPT ![c] =
            [NoTask EXCEPT !.op = "user_games", !.pc = "query_white",
                           !.user_id = user_id, !.limit = limit]]
    /\ UNCHANGED <<user_profiles, game_history, outside_history>>

\* white_games_data = await self.query_collection(...)
GamesQueryWhite(c) ==
    /\ tasks[c].op = "user_games" /\ tasks[c].pc = "query_white"
    /\ \E ok \in BOOLEAN :
        tasks' = [tasks EXCEPT ![c] =
            [tasks[c] EXCEPT !.pc = "query_black",
                !.games = QueryUserGames("white_player_id", tasks[c].user_id,
                                         tasks[c].limit, ok)]]
    /\ UNCHANGED <<user_profiles, game_history, outside_history>>

\* black_games_data = await self.query_collection(...), then merge, sort and
\* cut.
GamesQueryBlack(c) ==
    /\ tasks[c].op = "user_games" /\ tasks[c].pc = "query_black"
    /\ \E ok \in BOOLEAN :
        LET black_games_data ==
                QueryUserGames("black_player_id", tasks[c].user_id,
                               tasks[c].limit, ok)
            sorted_games ==
                SortedByEndTime(DictValues(tasks[c].games \o black_games_data))
        IN tasks' = [tasks EXCEPT ![c] =
                [TaskDone(c, "true", 200) EXCEPT
                    !.games = Take(sorted_games, tasks[c].limit)]]
    /\ UNCHANGED <<user_profiles, game_history, outside_history>>

InitGames ==
    /\ user_profiles = <<>>
    /\ \E coll \in ListedCollections : game_history = Stored(coll)
    /\ tasks = [c \in TaskSlots |-> NoTask]
    /\ serial = TRUE
    /\ FriendsStart /\ AuthStart /\ AnalyticsStart

NextGames ==
    \E c \in TaskSlots :
        \/ \E u \in Players, limit \in Limits : GetUserGames(c, u, limit)
        \/ GamesQueryWhite(c)
        \/ GamesQueryBlack(c)
        \/ TaskReturn(c)

SpecGames == InitGames /\ [][NextGames]_vars

\* The archived games in which uid is white or black.
GamesOf(uid) ==
    {g \in DOMAIN game_history :
        uid \in {game_history[g].white_player_id,
                 game_history[g].black_player_id}}

\* C25: get_user_games(uid, limit) returns min(limit, n) of the n archived
\* games of uid, each once, the later game first, and no game it leaves out
\* ended later than one it returns.
C25_UserGamesComplete ==
    \A c \in TaskSlots :
        (tasks[c].op = "user_games" /\ tasks[c].pc = "done")
        => LET games == tasks[c].games
               n == Cardinality(GamesOf(tasks[c].user_id))
               ids == {games[i].game_id : i \in 1..Len(games)}
           IN /\ Len(games) = (IF n < tasks[c].limit THEN n ELSE tasks[c].limit)
              /\ Cardinality(ids) = Len(games)
              /\ ids \subseteq GamesOf(tasks[c].user_id)
              /\ \A i \in 1..Len(games) :
                    games[i] = game_history[games[i].game_id]
              /\ \A i, j \in 1..Len(games) :
                    i < j => games[i].end_time >= games[j].end_time
              /\ \A g \in GamesOf(tasks[c].user_id) \ ids :
                    \A i \in 1..Len(games) :
                        game_history[g].end_time <= games[i].end_time

\* ------------------------------------------------------------------------
\* archive_game, several calls at a time
\* ------------------------------------------------------------------------
\* The two games the clients report: one body for each game_id.
ReportedGames ==
    {NewGameHistory("g1", "a", "b", WHITE_WIN, 0),
     NewGameHistory("g2", "b", "a", DRAW, 0)}

\* Both players have registered; nothing has been archived.
InitArchive ==
    /\ user_profiles = ("a" :> NewUserProfile("a", "ann"))
                        @@ ("b" :> NewUserProfile("b", "bob"))
    /\ game_history = <<>>
    /\ tasks = [c \in TaskSlots |-> NoTask]
    /\ serial = FALSE
    /\ FriendsStart /\ AuthStart /\ AnalyticsStart

NextArchive ==
    \E c \in TaskSlots :
        \/ \E u \in Players, game \in ReportedGames : ArchiveGame(c, u, game)
        \/ ArchiveSetGame(c)
        \/ ArchiveGetWhite(c)
        \/ ArchiveGetBlack(c)
        \/ ArchiveUpdateWhite(c)
        \/ ArchiveUpdateBlack(c)
        \/ TaskReturn(c)

\* POST /history/games handlers whose steps interleave.
SpecArchive == InitArchive /\ [][NextArchive]_vars

\* The rating change of player u in a game record (0 when u did not play).
ChangeOf(game, u) ==
    (IF game.white_player_id = u THEN game.rating_change.white ELSE 0)
    + (IF game.black_player_id = u THEN game.rating_change.black ELSE 0)

RECURSIVE SumOfChanges(_, _)
SumOfChanges(games, u) ==
    IF games = {} THEN 0
    ELSE LET g == CHOOSE x \in games : TRUE
         IN ChangeOf(g, u) + SumOfChanges(games \ {g}, u)

\* The archive calls that have completed with true and not yet been answered.
CompletedArchives ==
    {c \in TaskSlots :
        tasks[c].op = "archive" /\ tasks[c].pc = "done" /\ tasks[c].result = "true"}

\* C27: when a set of archive_game calls for distinct games has completed,
\* however their store reads and writes interleaved, each player's rating is
\* the rating before the calls (the default of a new profile) plus the sum of
\* the player's rating changes over those games, and games_played has grown
\* by the number of those games.
C27_ConcurrentArchivesAddUp ==
    (/\ Cardinality(CompletedArchives) > 1
     /\ \A c, d \in CompletedArchives :
            c # d => tasks[c].game.game_id # tasks[d].game.game_id
     /\ \A c \in TaskSlots : tasks[c].op = "idle" \/ c \in CompletedArchives)
    => \A u \in Players :
        /\ user_profiles[u].rating =
              DefaultRating
              + SumOfChanges({tasks[c].game : c \in CompletedArchives}, u)
        /\ user_profiles[u].games_played = Cardinality(CompletedArchives)

\* C28: a game's rating change and its counter increments reach each
\* participant's profile at most once, however often the game is archived:
\* the counters never exceed the number of archived games, and the rating is
\* the default plus the changes of some of the archived games, each once.
C28_GameAppliedAtMostOnce ==
    \A u \in Players :
        LET played == {g \in DOMAIN game_history :
                        u \in {game_history[g].white_player_id,
                               game_history[g].black_player_id}}
            p == user_profiles[u]
        IN /\ p.games_played <= Cardinality(played)
           /\ p.wins + p.losses + p.draws <= Cardinality(played)
           /\ \E S \in SUBSET played :
                p.rating = DefaultRating
                            + SumOfChanges({game_history[g] : g \in S}, u)

====
